---- MODULE Spec2Model ----
(***************************************************************************)
(* Release/version analysis core of the CI dashboard:                      *)
(*   SemanticVersion.parse / isSemantic / toString   (domain/models)       *)
(*   Release.hasSemanticVersion, ReleaseStats        (domain/models)       *)
(*   ReleaseCalculator.parseTags / calculateStats    (domain/services)     *)
(*                                                                         *)
(* A JavaScript string is a sequence of one-character strings.  A          *)
(* JavaScript Number produced by parseInt(digits, 10) is kept as its       *)
(* canonical decimal numeral (a digit sequence without leading zeros):     *)
(* the components drawn below are all exactly representable as doubles,    *)
(* so the numeral is the value, and values of 10^21 and more, which a      *)
(* 32-bit integer cannot hold, keep the rendering JavaScript gives them.   *)
(***************************************************************************)
EXTENDS Integers, Sequences, FiniteSets

VARIABLES
    version,        \* the string handed to SemanticVersion.parse
    parsed,         \* SemanticVersion.parse(version)
    prefixed,       \* SemanticVersion.parse("v" + version)
    rendered,       \* parsed.toString()
    reparsed,       \* SemanticVersion.parse(rendered)
    vpc,            \* position of the parse / toString caller
    tags,           \* the tag array handed to parseTags: [name, date] records
    releases,       \* the Release array handed to calculateStats
    origin,         \* how releases was built: by parseTags or directly
    stats,          \* the ReleaseStats returned by calculateStats
    now,            \* the clock value read by calculateDaysSince
    cpc,            \* position of the ReleaseCalculator caller
    filtered,       \* the array returned by filterSemanticVersions
    count,          \* the count handed to getLatestReleases
    latestReleases, \* the array returned by getLatestReleases
    sinceDate,      \* the date whose age is asked for
    within,         \* the days handed to isRecentRelease
    daysSince,      \* the number returned by getDaysSince / calculateDaysSince
    recent,         \* the boolean returned by isRecentRelease
    again,          \* what the same calls returned when made a second time
    args,           \* the arguments of new Repository(...)
    built,          \* what new Repository(...) gave: an object or an error
    includeReleaseData, \* the flag handed to FetchRepositories.execute
    listAnswer,     \* how the provider settles listRepositories
    tagAnswers,     \* how the provider settles getRepositoryTags, per repository
    fpc,            \* position of FetchRepositories.execute
    pending,        \* the FetchRepositoryData.execute calls awaiting their tags
    enriched,       \* what each FetchRepositoryData.execute call resolved with
    clocks,         \* the clock value each of them read
    calls,          \* the calls made on the RepositoryProvider, in order
    logged,         \* the calls made on the Logger, in order
    outcome,        \* how FetchRepositories.execute settled
    repositories,   \* the Repository objects listRepositories resolved with
    completed,      \* the FetchRepositoryData.execute calls, in completion order
    email,          \* the email handed to new User(...)
    user,           \* what new User(...) gave: an object or an error
    domain,         \* the string returned by getDomain
    allowedDomain,  \* the domain handed to hasAllowedDomain
    allowed,        \* the boolean returned by hasAllowedDomain
    upc,            \* position of the caller of User
    method,         \* the GitHubRepositoryProvider method called
    orgName,        \* the orgName argument of listRepositories
    configuredOrg,  \* the orgName the provider was constructed with
    apiAnswer,      \* how the GitHub API settles the request
    apiCalls,       \* the requests made to the GitHub API, in order
    provided,       \* how the provider method settled
    ppc,            \* position of the provider method
    authEnabled,    \* EnvironmentConfig.AUTH_ENABLED
    session,        \* how getServerSession settles
    currentUser,    \* how NextAuthProvider.getCurrentUser settled
    apc,            \* position of getCurrentUser
    githubOrg,      \* EnvironmentConfig.GITHUB_ORG
    githubToken,    \* EnvironmentConfig.GITHUB_TOKEN
    response,       \* the response of GET /api/repositories
    rpc,            \* position of the GET handler
    shown,          \* the enriched Repository the dashboard is about to show
    latestVersion,  \* what getLatestReleaseVersion returned for it
    json,           \* the repository in the JSON of GET /api/repositories
    card,           \* what RepositoryCard renders of it
    dpc             \* position on the way to the card

versionVars == <<version, parsed, prefixed, rendered, reparsed, vpc>>
statsVars == <<tags, releases, origin, stats, now, cpc>>
queryVars == <<filtered, count, latestReleases, sinceDate, within, daysSince,
               recent, again>>
ctorVars == <<args, built>>
fetchVars == <<includeReleaseData, listAnswer, tagAnswers, fpc, pending,
               enriched, clocks, calls, logged, outcome, repositories,
               completed>>

userVars == <<email, user, domain, allowedDomain, allowed, upc>>
providerVars == <<method, orgName, configuredOrg, apiAnswer, apiCalls, provided,
                  ppc>>

authVars == <<authEnabled, session, currentUser, apc>>
routeVars == <<githubOrg, githubToken, response, rpc>>
viewVars == <<shown, latestVersion, json, card, dpc>>

\* The variables of the domain and use case layers, and those of the adapters
\* and the User model.
coreVars == <<versionVars, statsVars, queryVars, ctorVars, fetchVars>>
edgeVars == <<userVars, providerVars, authVars, routeVars, viewVars>>

vars == <<coreVars, edgeVars>>

-----------------------------------------------------------------------------
(* Values *)

\* JavaScript null, undefined, and a variable not assigned yet.
Null == [null |-> TRUE]
Undefined == [undefined |-> TRUE]
Unset == [unset |-> TRUE]

\* A string held where undefined may be held too (SemanticVersion.preRelease).
String(chars) == [chars |-> chars]

\* The variables of the callers that take no part in a run.
VersionIdle ==
    /\ version = <<>> /\ parsed = Unset /\ prefixed = Unset
    /\ rendered = Unset /\ reparsed = Unset /\ vpc = "idle"

StatsIdle ==
    /\ tags = <<>> /\ releases = Unset /\ origin = "none"
    /\ stats = Unset /\ now = 0 /\ cpc = "idle"

QueriesIdle ==
    /\ filtered = Unset /\ count = 0 /\ latestReleases = Unset
    /\ sinceDate = 0 /\ within = 0 /\ daysSince = 0 /\ recent = FALSE
    /\ again = Unset

CtorIdle == args = Unset /\ built = Unset

FetchIdle ==
    /\ includeReleaseData = FALSE /\ listAnswer = Unset /\ tagAnswers = <<>>
    /\ fpc = "idle" /\ pending = {} /\ enriched = <<>> /\ clocks = <<>>
    /\ calls = <<>> /\ logged = <<>> /\ outcome = Unset
    /\ repositories = <<>> /\ completed = <<>>

UserIdle ==
    /\ email = <<>> /\ user = Unset /\ domain = <<>>
    /\ allowedDomain = <<>> /\ allowed = FALSE /\ upc = "idle"

ProviderIdle ==
    /\ method = "none" /\ orgName = Undefined /\ configuredOrg = Undefined
    /\ apiAnswer = Unset /\ apiCalls = <<>> /\ provided = Unset
    /\ ppc = "idle"

\* A JavaScript array, where null may stand in its place.
Array(items) == [items |-> items]

CoreIdle ==
    /\ VersionIdle /\ StatsIdle /\ QueriesIdle /\ CtorIdle /\ FetchIdle

AuthIdle ==
    /\ authEnabled = FALSE /\ session = Unset /\ currentUser = Unset
    /\ apc = "idle"

RouteIdle ==
    /\ githubOrg = Unset /\ githubToken = Unset /\ response = Unset
    /\ rpc = "idle"

ViewIdle ==
    /\ shown = Unset /\ latestVersion = Unset /\ json = Unset /\ card = Unset
    /\ dpc = "idle"

EdgeIdle == UserIdle /\ ProviderIdle /\ AuthIdle /\ RouteIdle /\ ViewIdle

Digits == {"0", "1", "2", "3", "4", "5", "6", "7", "8", "9"}

\* The characters the regular expression's "." does not match.  (U+2028 and
\* U+2029 are line terminators too; they have no TLA+ string escape.)
LineTerminators == {"\n", "\r"}

\* ECMAScript WhiteSpace and LineTerminator characters, what \s matches.
WhiteSpace == {" ", "\t", "\f", "\n", "\r"}

-----------------------------------------------------------------------------
(* Bounds of the model *)

\* Longest text drawn after the three components of a version input.
MaxTail == 2
\* Longest tag array.
MaxTags == 3
\* Tag dates and clock values are 0 .. MaxHalfDays half days after the epoch.
MaxHalfDays == 2

\* Longest tag array of the callers that ask for the age of a release.
MaxFew == 2

\* Most repositories the provider lists for the organization.
MaxRepos == 2

\* Longest email handed to new User(...).
MaxEmail == 5

\* Longest domain handed to hasAllowedDomain.
MaxDomain == 3

-----------------------------------------------------------------------------
(* Strings and numbers *)

\* The decimal numeral of a natural number, as String(n) writes it.
RECURSIVE DecimalNumeral(_)
DecimalNumeral(n) ==
    LET d == <<"0", "1", "2", "3", "4", "5", "6", "7", "8", "9">>[(n % 10) + 1]
    IN IF n < 10 THEN <<d>> ELSE Append(DecimalNumeral(n \div 10), d)

RECURSIVE StripLeadingZeros(_)
StripLeadingZeros(d) ==
    IF Len(d) > 1 /\ d[1] = "0" THEN StripLeadingZeros(Tail(d)) ELSE d

RECURSIVE StripTrailingZeros(_)
StripTrailingZeros(d) ==
    IF Len(d) > 0 /\ d[Len(d)] = "0"
    THEN StripTrailingZeros(SubSeq(d, 1, Len(d) - 1))
    ELSE d

\* parseInt(text, 10) on a capture of \d+: the value of the numeral.
ParseInt(text) == StripLeadingZeros(text)

\* Number-to-string of a non-negative integral Number, as the template literal
\* `${this.major}` applies it: plain digits below 10^21, exponent form from
\* there on ("1e+21").
NumberToString(n) ==
    IF Len(n) <= 21
    THEN n
    ELSE LET fraction == StripTrailingZeros(Tail(n))
         IN <<n[1]>>
            \o (IF fraction = <<>> THEN <<>> ELSE <<".">> \o fraction)
            \o <<"e", "+">> \o DecimalNumeral(Len(n) - 1)

-----------------------------------------------------------------------------
(* SemanticVersion *)

\* Variants of the prefix rule: /^v/i, which drops a V too, and no rule at all.
CleanVersionAnyCase(text) ==
    IF Len(text) > 0 /\ text[1] \in {"v", "V"} THEN Tail(text) ELSE text

CleanVersionKept(text) == text

\* version.replace(/^v/, ''): one leading lowercase v is dropped.
CleanVersion(text) ==
    IF Len(text) > 0 /\ text[1] = "v" THEN Tail(text) ELSE text

\* The "." of the regular expression: any character but a line terminator.
\* SuffixCharNoSpace is the narrower class \S, had the pattern been -(\S+).
SuffixCharNoSpace(c) == c \notin WhiteSpace

SuffixChar(c) == c \notin LineTerminators

\* The end of the greedy \d+ that starts at position i: the position of the
\* first character at or after i that is no digit.
RECURSIVE DigitsEnd(_, _)
DigitsEnd(text, i) ==
    IF i <= Len(text) /\ text[i] \in Digits THEN DigitsEnd(text, i + 1) ELSE i

\* cleanVersion.match(/^(\d+)\.(\d+)\.(\d+)(?:-(.+))?$/): the four captures, or
\* Null.  The fourth capture is Undefined when the optional group took no part.
VersionMatch(text) ==
    LET n  == Len(text)
        e1 == DigitsEnd(text, 1)
        e2 == DigitsEnd(text, e1 + 1)
        e3 == DigitsEnd(text, e2 + 1)
    IN IF /\ e1 > 1 /\ e1 <= n /\ text[e1] = "."
          /\ e2 > e1 + 1 /\ e2 <= n /\ text[e2] = "."
          /\ e3 > e2 + 1
       THEN LET three == [g1 |-> SubSeq(text, 1, e1 - 1),
                          g2 |-> SubSeq(text, e1 + 1, e2 - 1),
                          g3 |-> SubSeq(text, e2 + 1, e3 - 1)]
            IN IF e3 = n + 1
               THEN [g1 |-> three.g1, g2 |-> three.g2, g3 |-> three.g3,
                     g4 |-> Undefined]
               ELSE IF /\ text[e3] = "-"
                       /\ e3 < n
                       /\ \A k \in (e3 + 1)..n : SuffixChar(text[k])
                    THEN [g1 |-> three.g1, g2 |-> three.g2, g3 |-> three.g3,
                          g4 |-> String(SubSeq(text, e3 + 1, n))]
                    ELSE Null
       ELSE Null

\* SemanticVersion.parse
Parse(text) ==
    LET match == VersionMatch(CleanVersion(text))
    IN IF match = Null
       THEN Null
       ELSE [major |-> ParseInt(match.g1),
             minor |-> ParseInt(match.g2),
             patch |-> ParseInt(match.g3),
             preRelease |-> match.g4]

\* JavaScript truthiness of an optional string: undefined and "" are falsy.
Truthy(s) == s # Undefined /\ s.chars # <<>>

\* SemanticVersion.isSemantic
IsSemantic(v) == ~Truthy(v.preRelease)

\* SemanticVersion.toString
ToString(v) ==
    LET base == NumberToString(v.major) \o <<".">> \o NumberToString(v.minor)
                \o <<".">> \o NumberToString(v.patch)
    IN IF Truthy(v.preRelease) THEN base \o <<"-">> \o v.preRelease.chars
       ELSE base

-----------------------------------------------------------------------------
(* Callers of SemanticVersion: the strings they pass and the calls they make *)

\* All sequences over a set of characters, up to a length.
RECURSIVE TextsUpTo(_, _)
TextsUpTo(chars, n) ==
    IF n = 0
    THEN {<<>>}
    ELSE LET shorter == TextsUpTo(chars, n - 1)
         IN shorter \cup {Append(t, c) : t \in shorter, c \in chars}

\* 10^21, the least integer that Number-to-string writes in exponent form.
Sextillion ==
    <<"1", "0", "0", "0", "0", "0", "0", "0", "0", "0", "0",
           "0", "0", "0", "0", "0", "0", "0", "0", "0", "0", "0">>

Prefixes == {<<>>, <<"v">>, <<"V">>, <<"v", "v">>}
Components == {<<>>, <<"0">>, <<"7">>, <<"0", "1">>, <<"a">>, Sextillion}
TailChars == {"-", "a", " ", "\n", "."}
\* Suffixes as tags carry them, and two with white space inside.
SampleTails ==
    {<<"-", "b", "e", "t", "a">>,
     <<"-", "b", "e", "t", "a", ".", "1">>,
     <<"-", "r", "c", "-", "1">>,
     <<"-", "b", "e", "t", "a", " ", "1">>,
     <<"-", "b", "e", "t", "a", "\n", "1">>}
Tails == TextsUpTo(TailChars, MaxTail) \cup SampleTails

\* One, two or three components joined by dots.
Bodies ==
    Components
    \cup {a \o <<".">> \o b : a \in Components, b \in Components}
    \cup {a \o <<".">> \o b \o <<".">> \o c :
            a \in Components, b \in Components, c \in Components}

\* The tag names and version strings handed to SemanticVersion.parse.
VersionInputs == {p \o b \o t : p \in Prefixes, b \in Bodies, t \in Tails}

InitVersion ==
    /\ version \in VersionInputs
    /\ parsed = Unset
    /\ prefixed = Unset
    /\ rendered = Unset
    /\ reparsed = Unset
    /\ vpc = "input"
    /\ StatsIdle /\ QueriesIdle /\ CtorIdle /\ FetchIdle
    /\ EdgeIdle

\* const version = SemanticVersion.parse(tag.name)
DoParse ==
    /\ vpc = "input"
    /\ parsed' = Parse(version)
    /\ vpc' = "parsed"
    /\ UNCHANGED <<version, prefixed, rendered, reparsed>>
    /\ UNCHANGED <<statsVars, queryVars, ctorVars, fetchVars, edgeVars>>

\* SemanticVersion.parse('v' + s), the same tag written with the prefix
DoParsePrefixed ==
    /\ vpc = "parsed"
    /\ prefixed' = Parse(<<"v">> \o version)
    /\ vpc' = "prefixed"
    /\ UNCHANGED <<version, parsed, rendered, reparsed>>
    /\ UNCHANGED <<statsVars, queryVars, ctorVars, fetchVars, edgeVars>>

\* version.toString()
DoToString ==
    /\ vpc = "parsed"
    /\ parsed # Null
    /\ rendered' = ToString(parsed)
    /\ vpc' = "rendered"
    /\ UNCHANGED <<version, parsed, prefixed, reparsed>>
    /\ UNCHANGED <<statsVars, queryVars, ctorVars, fetchVars, edgeVars>>

\* SemanticVersion.parse(version.toString())
DoReparse ==
    /\ vpc = "rendered"
    /\ reparsed' = Parse(rendered)
    /\ vpc' = "reparsed"
    /\ UNCHANGED <<version, parsed, prefixed, rendered>>
    /\ UNCHANGED <<statsVars, queryVars, ctorVars, fetchVars, edgeVars>>

NextVersion ==
    \/ DoParse
    \/ DoParsePrefixed
    \/ DoToString
    \/ DoReparse

-----------------------------------------------------------------------------
(* Release, ReleaseStats *)

\* A number held where null may be held too (daysSinceLatestRelease).
Number(n) == [number |-> n]

\* new Release(tagName, date, version)
Release(tagName, date, ver) ==
    [tagName |-> tagName, date |-> date, version |-> ver]

\* Release.hasSemanticVersion without the isSemantic() test.
HasAnyVersion(release) == release.version # Null

\* Release.hasSemanticVersion
HasSemanticVersion(release) ==
    release.version # Null /\ IsSemantic(release.version)

\* new ReleaseStats(...) with the two counts in each other's place.
ReleaseStatsSwapped(total, semantic, latest, latestSemantic, days) ==
    [totalReleases |-> semantic,
     semanticReleases |-> total,
     latestRelease |-> latest,
     latestSemanticRelease |-> latestSemantic,
     daysSinceLatestRelease |-> days]

\* new ReleaseStats(...)
ReleaseStats(total, semantic, latest, latestSemantic, days) ==
    [totalReleases |-> total,
     semanticReleases |-> semantic,
     latestRelease |-> latest,
     latestSemanticRelease |-> latestSemantic,
     daysSinceLatestRelease |-> days]

\* hasReleases that takes a count of 0 for releases.
HasReleasesWhenZero(st) == st.totalReleases >= 0

\* ReleaseStats.hasReleases
HasReleases(st) == st.totalReleases > 0

\* ReleaseStats.hasSemanticReleases
HasSemanticReleases(st) == st.semanticReleases > 0

-----------------------------------------------------------------------------
(* ReleaseCalculator *)

\* 1000 * 60 * 60 * 24
MsPerDay == 86400000

\* Math.abs left out: the signed difference.
AbsMissing(x) == x

Abs(x) == IF x < 0 THEN -x ELSE x

\* ReleaseCalculator.calculateDaysSince, with the clock value new Date() gave
CalculateDaysSince(date, clock) == Abs(clock - date) \div MsPerDay

\* Release.getDaysSince, with the clock value new Date() gave
GetDaysSince(release, clock) == Abs(clock - release.date) \div MsPerDay

\* isRecentRelease with the boundary left out.
IsRecentReleaseStrict(release, d, clock) == GetDaysSince(release, clock) < d

\* ReleaseCalculator.isRecentRelease: release.getDaysSince() <= days
IsRecentRelease(release, d, clock) == GetDaysSince(release, clock) <= d

RECURSIVE Reverse(_)
Reverse(q) == IF q = <<>> THEN <<>> ELSE Append(Reverse(Tail(q)), q[1])

\* filterSemanticVersions keeping every release.
FilterSemanticVersionsAll(rels) == rels

\* filterSemanticVersions giving its result in the opposite order.
FilterSemanticVersionsReversed(rels) ==
    Reverse(SelectSeq(rels, HasSemanticVersion))

\* ReleaseCalculator.filterSemanticVersions
FilterSemanticVersions(rels) == SelectSeq(rels, HasSemanticVersion)

\* The comparator with its operands exchanged: oldest first.
CompareByDateAsc(a, b) == a.date - b.date

\* The comparator of parseTags: negative when a comes first.
CompareByDateDesc(a, b) == b.date - a.date

\* A sort that places an element before the elements it ties with.
RECURSIVE InsertBeforeTies(_, _)
InsertBeforeTies(x, sorted) ==
    IF sorted = <<>>
    THEN <<x>>
    ELSE IF CompareByDateDesc(sorted[1], x) < 0
         THEN <<sorted[1]>> \o InsertBeforeTies(x, Tail(sorted))
         ELSE <<x>> \o sorted

\* Array.prototype.sort with that comparator.  The sort is stable (ECMAScript
\* 2019), so its result is the one an insertion sort gives: each element is
\* placed after the elements that do not compare greater than it.
RECURSIVE Insert(_, _)
Insert(x, sorted) ==
    IF sorted = <<>>
    THEN <<x>>
    ELSE IF CompareByDateDesc(sorted[1], x) <= 0
         THEN <<sorted[1]>> \o Insert(x, Tail(sorted))
         ELSE <<x>> \o sorted

RECURSIVE SortFirst(_, _)
SortFirst(rels, n) ==
    IF n = 0 THEN <<>> ELSE Insert(rels[n], SortFirst(rels, n - 1))

\* A sort that leaves the array as it is.
SortNothing(rels) == rels

Sort(rels) == SortFirst(rels, Len(rels))

\* tags.map(tag => new Release(tag.name, tag.date, SemanticVersion.parse(tag.name)))
MapTags(tagList) ==
    [i \in 1..Len(tagList) |->
        Release(tagList[i].name, tagList[i].date, Parse(tagList[i].name))]

\* ReleaseCalculator.parseTags
ParseTags(tagList) == Sort(MapTags(tagList))

\* calculateStats taking the newest release by date instead of the first one.
CalculateStatsNewest(rels, clock) ==
    IF Len(rels) = 0
    THEN ReleaseStats(0, 0, Null, Null, Null)
    ELSE LET semanticReleases == FilterSemanticVersions(rels)
             latestRelease == Sort(rels)[1]
             latestSemanticRelease ==
                 IF Len(semanticReleases) > 0 THEN semanticReleases[1] ELSE Null
             daysSinceLatest == CalculateDaysSince(latestRelease.date, clock)
         IN ReleaseStats(Len(rels), Len(semanticReleases), latestRelease,
                         latestSemanticRelease, Number(daysSinceLatest))

\* calculateStats giving 0 days, not null, for the empty array.
CalculateStatsZeroDays(rels, clock) ==
    IF Len(rels) = 0
    THEN ReleaseStats(0, 0, Null, Null, Number(0))
    ELSE LET semanticReleases == FilterSemanticVersions(rels)
             latestRelease == rels[1]
             latestSemanticRelease ==
                 IF Len(semanticReleases) > 0 THEN semanticReleases[1] ELSE Null
             daysSinceLatest == CalculateDaysSince(latestRelease.date, clock)
         IN ReleaseStats(Len(rels), Len(semanticReleases), latestRelease,
                         latestSemanticRelease, Number(daysSinceLatest))

\* ReleaseCalculator.calculateStats, with the clock value read inside it
CalculateStats(rels, clock) ==
    IF Len(rels) = 0
    THEN ReleaseStats(0, 0, Null, Null, Null)
    ELSE LET semanticReleases == FilterSemanticVersions(rels)
             latestRelease == rels[1]
             latestSemanticRelease ==
                 IF Len(semanticReleases) > 0 THEN semanticReleases[1] ELSE Null
             daysSinceLatest == CalculateDaysSince(latestRelease.date, clock)
         IN ReleaseStats(Len(rels), Len(semanticReleases), latestRelease,
                         latestSemanticRelease, Number(daysSinceLatest))

-----------------------------------------------------------------------------
(* Callers of ReleaseCalculator *)

\* Tag names as they come from the provider: a release, a release without
\* the prefix, a pre-release, and a tag that is no version.
TagNames ==
    {<<"v", "1", ".", "0", ".", "0">>,
     <<"2", ".", "0", ".", "1">>,
     <<"v", "1", ".", "5", ".", "0", "-", "b", "e", "t", "a">>,
     <<"s", "o", "m", "e", "-", "t", "a", "g">>}

\* Date.getTime() values: half days after the epoch.
Instants == {k * (MsPerDay \div 2) : k \in 0..MaxHalfDays}

Tag == [name : TagNames, date : Instants]

RECURSIVE TagLists(_)
TagLists(n) ==
    IF n = 0
    THEN {<<>>}
    ELSE LET shorter == TagLists(n - 1)
         IN shorter \cup {Append(l, t) : l \in {x \in shorter : Len(x) = n - 1},
                                         t \in Tag}

InitStats ==
    /\ tags \in TagLists(MaxTags)
    /\ releases = Unset
    /\ origin = "none"
    /\ stats = Unset
    /\ now = 0
    /\ cpc = "tags"
    /\ VersionIdle /\ QueriesIdle /\ CtorIdle /\ FetchIdle
    /\ EdgeIdle

\* parseTags sorting the array it was handed, in place.
DoParseTagsInPlace ==
    /\ cpc = "tags"
    /\ releases' = ParseTags(tags)
    /\ tags' = [i \in DOMAIN tags |->
                  [name |-> ParseTags(tags)[i].tagName,
                   date |-> ParseTags(tags)[i].date]]
    /\ origin' = "parseTags"
    /\ cpc' = "releases"
    /\ UNCHANGED <<stats, now>>
    /\ UNCHANGED <<versionVars, queryVars, ctorVars, fetchVars, edgeVars>>

\* FetchRepositoryData.execute: const releases = ReleaseCalculator.parseTags(tags)
DoParseTags ==
    /\ cpc = "tags"
    /\ releases' = ParseTags(tags)
    /\ origin' = "parseTags"
    /\ cpc' = "releases"
    /\ UNCHANGED <<tags, stats, now>>
    /\ UNCHANGED <<versionVars, queryVars, ctorVars, fetchVars, edgeVars>>

\* A caller that builds the Release array itself, in the order it likes
\* (as the unit tests of calculateStats do).
DoNewReleases ==
    /\ cpc = "tags"
    /\ releases' = MapTags(tags)
    /\ origin' = "new"
    /\ cpc' = "releases"
    /\ UNCHANGED <<tags, stats, now>>
    /\ UNCHANGED <<versionVars, queryVars, ctorVars, fetchVars, edgeVars>>

\* const releaseStats = ReleaseCalculator.calculateStats(releases)
DoCalculateStats ==
    /\ cpc = "releases"
    /\ \E clock \in Instants :
          /\ now' = clock
          /\ stats' = CalculateStats(releases, clock)
    /\ cpc' = "stats"
    /\ UNCHANGED <<tags, releases, origin>>
    /\ UNCHANGED <<versionVars, queryVars, ctorVars, fetchVars, edgeVars>>

NextStats ==
    \/ DoParseTags
    \/ DoNewReleases
    \/ DoCalculateStats

-----------------------------------------------------------------------------
(* ReleaseCalculator.filterSemanticVersions and getLatestReleases *)

Min(a, b) == IF a < b THEN a ELSE b
Max(a, b) == IF a > b THEN a ELSE b

\* Array.prototype.slice(0, end): a negative end counts from the end of the
\* array, and the result is empty when the final index is not past 0.
SliceFromStart(arr, end) ==
    LET len == Len(arr)
        final == IF end < 0 THEN Max(len + end, 0) ELSE Min(end, len)
    IN SubSeq(arr, 1, final)

\* getLatestReleases sorting by date before it slices.
GetLatestReleasesSorted(rels, n) == SliceFromStart(Sort(rels), n)

\* static getLatestReleases(releases, count): releases.slice(0, count)
GetLatestReleases(rels, n) == SliceFromStart(rels, n)

\* The counts a caller hands to getLatestReleases.
Counts == (0 - 2)..(MaxTags + 2)

\* ReleaseCalculator.filterSemanticVersions(releases)
DoFilterSemanticVersions ==
    /\ cpc = "releases"
    /\ filtered' = FilterSemanticVersions(releases)
    /\ cpc' = "filtered"
    /\ UNCHANGED <<tags, releases, origin, stats, now>>
    /\ UNCHANGED <<count, latestReleases, sinceDate, within, daysSince, recent,
                   again>>
    /\ UNCHANGED <<versionVars, ctorVars, fetchVars, edgeVars>>

\* ReleaseCalculator.getLatestReleases(releases, count)
DoGetLatestReleases ==
    /\ cpc = "releases"
    /\ \E n \in Counts :
          /\ count' = n
          /\ latestReleases' = GetLatestReleases(releases, n)
    /\ cpc' = "latest"
    /\ UNCHANGED <<tags, releases, origin, stats, now>>
    /\ UNCHANGED <<filtered, sinceDate, within, daysSince, recent, again>>
    /\ UNCHANGED <<versionVars, ctorVars, fetchVars, edgeVars>>

NextQueries ==
    \/ DoParseTags
    \/ DoNewReleases
    \/ DoFilterSemanticVersions
    \/ DoGetLatestReleases

-----------------------------------------------------------------------------
(* Release.getDaysSince, ReleaseCalculator.calculateDaysSince and
   isRecentRelease *)

\* The days a caller hands to isRecentRelease.
Withins == (0 - 1)..MaxHalfDays

InitRecent ==
    /\ tags \in TagLists(MaxFew)
    /\ releases = Unset
    /\ origin = "none"
    /\ stats = Unset
    /\ now = 0
    /\ cpc = "tags"
    /\ VersionIdle /\ QueriesIdle /\ CtorIdle /\ FetchIdle
    /\ EdgeIdle

\* release.getDaysSince() on one of the releases
DoGetDaysSince ==
    /\ cpc = "releases"
    /\ \E i \in DOMAIN releases, clock \in Instants :
          /\ sinceDate' = releases[i].date
          /\ now' = clock
          /\ daysSince' = GetDaysSince(releases[i], clock)
    /\ cpc' = "getDaysSince"
    /\ UNCHANGED <<tags, releases, origin, stats>>
    /\ UNCHANGED <<filtered, count, latestReleases, within, recent, again>>
    /\ UNCHANGED <<versionVars, ctorVars, fetchVars, edgeVars>>

\* ReleaseCalculator.calculateDaysSince(date) on any date
DoCalculateDaysSince ==
    /\ cpc = "releases"
    /\ \E d \in Instants, clock \in Instants :
          /\ sinceDate' = d
          /\ now' = clock
          /\ daysSince' = CalculateDaysSince(d, clock)
    /\ cpc' = "calculateDaysSince"
    /\ UNCHANGED <<tags, releases, origin, stats>>
    /\ UNCHANGED <<filtered, count, latestReleases, within, recent, again>>
    /\ UNCHANGED <<versionVars, ctorVars, fetchVars, edgeVars>>

\* ReleaseCalculator.isRecentRelease(release, days) on one of the releases
DoIsRecentRelease ==
    /\ cpc = "releases"
    /\ \E i \in DOMAIN releases, d \in Withins, clock \in Instants :
          /\ sinceDate' = releases[i].date
          /\ within' = d
          /\ now' = clock
          /\ daysSince' = GetDaysSince(releases[i], clock)
          /\ recent' = IsRecentRelease(releases[i], d, clock)
    /\ cpc' = "isRecentRelease"
    /\ UNCHANGED <<tags, releases, origin, stats>>
    /\ UNCHANGED <<filtered, count, latestReleases, again>>
    /\ UNCHANGED <<versionVars, ctorVars, fetchVars, edgeVars>>

NextRecent ==
    \/ DoParseTags
    \/ DoNewReleases
    \/ DoCalculateStats
    \/ DoGetDaysSince
    \/ DoCalculateDaysSince
    \/ DoIsRecentRelease

-----------------------------------------------------------------------------
(* ReleaseCalculator called twice *)

\* The same calls made once more, on the same arrays and with the same clock
\* value and count: parseTags (or the caller's own mapping), and the call
\* that was made on its result.
DoCallAgain ==
    /\ cpc \in {"stats", "filtered", "latest"}
    /\ again = Unset
    /\ again' =
          [releases |-> IF origin = "parseTags"
                        THEN ParseTags(tags)
                        ELSE MapTags(tags),
           result |-> IF cpc = "stats"
                      THEN CalculateStats(releases, now)
                      ELSE IF cpc = "filtered"
                      THEN Array(FilterSemanticVersions(releases))
                      ELSE Array(GetLatestReleases(releases, count))]
    /\ UNCHANGED statsVars
    /\ UNCHANGED <<filtered, count, latestReleases, sinceDate, within,
                   daysSince, recent>>
    /\ UNCHANGED <<versionVars, ctorVars, fetchVars, edgeVars>>

NextPure ==
    \/ DoParseTags
    \/ DoNewReleases
    \/ DoCalculateStats
    \/ DoFilterSemanticVersions
    \/ DoGetLatestReleases
    \/ DoCallAgain

-----------------------------------------------------------------------------
(* Repository *)

\* throw new Error(message)
Error(message) == [error |-> message]

\* A value that is an error raised, not a value returned.
IsError(value) == "error" \in DOMAIN value

RECURSIVE TrimStart(_)
\* String.prototype.trimStart: drops leading white space and line terminators
TrimStart(s) ==
    IF s # <<>> /\ s[1] \in WhiteSpace THEN TrimStart(Tail(s)) ELSE s

\* trim leaving the string as it is.
TrimNothing(s) == s

\* String.prototype.trim: drops white space and line terminators at both ends
Trim(s) == Reverse(TrimStart(Reverse(TrimStart(s))))

\* String.prototype.startsWith
StartsWith(s, prefix) ==
    /\ Len(s) >= Len(prefix)
    /\ SubSeq(s, 1, Len(prefix)) = prefix

\* new Repository(name, owner, url, description, language, starCount,
\* updatedAt, releaseStats): the object built, or the error thrown
Repository(name, owner, url, description, language, starCount, updatedAt, releaseStats) ==
    IF \/ name = <<>> \/ Trim(name) = <<>>
       \/ owner = <<>> \/ Trim(owner) = <<>>
       \/ url = <<>>
    THEN Error("Repository name, owner, and url are required")
    ELSE IF ~StartsWith(url, <<"h", "t", "t", "p">>)
    THEN Error("Invalid repository URL")
    ELSE IF starCount < 0
    THEN Error("Star count cannot be negative")
    ELSE [name |-> name, owner |-> owner, url |-> url,
          description |-> description, language |-> language,
          starCount |-> starCount, updatedAt |-> updatedAt,
          releaseStats |-> releaseStats]

\* Repository.hasReleaseStats
HasReleaseStats(repository) ==
    repository.releaseStats # Null /\ HasReleases(repository.releaseStats)

\* getLatestReleaseVersion reading latestRelease.
GetLatestReleaseVersionOfNewest(repository) ==
    IF repository.releaseStats = Null
       \/ repository.releaseStats.latestRelease = Null
    THEN Null
    ELSE LET ver == repository.releaseStats.latestRelease.version
         IN IF ver = Null THEN Null ELSE String(ToString(ver))

\* Repository.getLatestReleaseVersion
GetLatestReleaseVersion(repository) ==
    IF repository.releaseStats = Null
       \/ repository.releaseStats.latestSemanticRelease = Null
    THEN Null
    ELSE LET ver == repository.releaseStats.latestSemanticRelease.version
         IN IF ver = Null THEN Null ELSE String(ToString(ver))

\* The names, owners, urls and star counts a caller hands to the constructor.
Names == {<<>>, <<" ">>, <<"\t", " ">>, <<"a">>, <<" ", "a">>}

Urls == {<<>>, <<" ">>, <<"h", "t", "t">>, <<"h", "t", "t", "p">>,
         <<"h", "t", "t", "p", "x">>,
         <<"h", "t", "t", "p", "s", ":", "/", "/", "x">>,
         <<"f", "t", "p", ":", "/", "/", "x">>,
         <<" ", "h", "t", "t", "p", ":", "/", "/", "x">>}

StarCounts == {0 - 1, 0, 1}

InitRepository ==
    /\ args \in [name : Names, owner : Names, url : Urls,
                  starCount : StarCounts]
    /\ built = Unset
    /\ VersionIdle /\ StatsIdle /\ QueriesIdle /\ FetchIdle
    /\ EdgeIdle

\* new Repository(name, owner, url, null, null, starCount, updatedAt)
DoNewRepository ==
    /\ built = Unset
    /\ built' = Repository(args.name, args.owner, args.url, Null, Null,
                           args.starCount, 0, Null)
    /\ UNCHANGED args
    /\ UNCHANGED <<versionVars, statsVars, queryVars, fetchVars, edgeVars>>

NextRepository ==
    \/ DoNewRepository

-----------------------------------------------------------------------------
(* User *)

\* The characters [^\s@] matches.
IsEmailChar(c) == c \notin WhiteSpace /\ c # "@"

\* emailRegex.test(email) with /^[^\s@]+@[^\s@]+\.[^\s@]+$/: an '@' at i
\* and a '.' at j, one or more [^\s@] before i, between i and j, and after
\* j up to the end of the string.
IsValidEmail(s) ==
    \E i \in 2..Len(s) : \E j \in (i + 2)..(Len(s) - 1) :
        /\ s[i] = "@"
        /\ s[j] = "."
        /\ \A k \in 1..Len(s) : k # i => IsEmailChar(s[k])

\* new User(id, email, name): the object built, or the error thrown
User(id, mail, name) ==
    IF mail = <<>> \/ ~IsValidEmail(mail)
    THEN Error("Invalid email address")
    ELSE [id |-> id, email |-> mail, name |-> name]

\* String.prototype.split with a separator of one character
RECURSIVE Split(_, _)
Split(s, sep) ==
    IF \A k \in DOMAIN s : s[k] # sep
    THEN <<s>>
    ELSE LET first == CHOOSE k \in DOMAIN s :
                          s[k] = sep /\ \A m \in 1..(k - 1) : s[m] # sep
         IN <<SubSeq(s, 1, first - 1)>> \o
            Split(SubSeq(s, first + 1, Len(s)), sep)

\* String.prototype.endsWith
EndsWith(s, suffix) ==
    /\ Len(s) >= Len(suffix)
    /\ SubSeq(s, Len(s) - Len(suffix) + 1, Len(s)) = suffix

\* hasAllowedDomain without the '@' in front of the domain.
HasAllowedDomainLoose(u, d) == EndsWith(u.email, d)

\* User.hasAllowedDomain: this.email.endsWith(`@${allowedDomain}`)
HasAllowedDomain(u, d) == EndsWith(u.email, <<"@">> \o d)

\* User.getDomain
GetDomain(u) ==
    LET parts == Split(u.email, "@")
    IN IF Len(parts) = 2 THEN parts[2] ELSE <<>>

\* The emails and domains a caller hands in.
EmailChars == {"a", "B", "@", ".", " "}
Emails == TextsUpTo(EmailChars, MaxEmail)

DomainChars == {"a", "B", "b", ".", "@"}
Domains == TextsUpTo(DomainChars, MaxDomain)

InitUser ==
    /\ email \in Emails
    /\ user = Unset
    /\ domain = <<>>
    /\ allowedDomain = <<>>
    /\ allowed = FALSE
    /\ upc = "input"
    /\ CoreIdle /\ ProviderIdle /\ AuthIdle /\ RouteIdle /\ ViewIdle

\* new User('123', email, null)
DoNewUser ==
    /\ upc = "input"
    /\ user' = User(<<"1", "2", "3">>, email, Null)
    /\ upc' = "built"
    /\ UNCHANGED <<email, domain, allowedDomain, allowed>>
    /\ UNCHANGED <<coreVars, providerVars, authVars, routeVars, viewVars>>

\* user.getDomain()
DoGetDomain ==
    /\ upc = "built"
    /\ ~IsError(user)
    /\ domain' = GetDomain(user)
    /\ upc' = "domain"
    /\ UNCHANGED <<email, user, allowedDomain, allowed>>
    /\ UNCHANGED <<coreVars, providerVars, authVars, routeVars, viewVars>>

\* user.hasAllowedDomain(allowedDomain)
DoHasAllowedDomain ==
    /\ upc = "domain"
    /\ \E d \in Domains :
          /\ allowedDomain' = d
          /\ allowed' = HasAllowedDomain(user, d)
    /\ upc' = "asked"
    /\ UNCHANGED <<email, user, domain>>
    /\ UNCHANGED <<coreVars, providerVars, authVars, routeVars, viewVars>>

NextUser ==
    \/ DoNewUser
    \/ DoGetDomain
    \/ DoHasAllowedDomain

-----------------------------------------------------------------------------
(* FetchRepositoryData and FetchRepositories *)

\* A settled promise: rejected with an error, or resolved with a value.
Rejected(error) == [rejected |-> error]
Resolved(value) == [resolved |-> value]
IsRejected(answer) == "rejected" \in DOMAIN answer

\* A Repository as an object on the heap: the fields the constructor set,
\* and the identity of the object.
NewObject(id, r) ==
    [object |-> id, name |-> r.name, owner |-> r.owner, url |-> r.url,
     description |-> r.description, language |-> r.language,
     starCount |-> r.starCount, updatedAt |-> r.updatedAt,
     releaseStats |-> r.releaseStats]

\* RepositoryMapper.toDomain: the k-th repository of the organization; no
\* releaseStats argument is passed, so the field is null.
ToDomain(k) ==
    Repository(<<"r">> \o DecimalNumeral(k), <<"o">>,
               <<"h", "t", "t", "p", "s", ":", "/", "/", "x">>,
               IF k % 2 = 0 THEN Null ELSE String(<<"d">>),
               String(<<"t", "s">>), k - 1, (k - 1) * (MsPerDay \div 2), Null)

\* RepositoryMapper.toDomainList
ToDomainList(n) == [k \in 1..n |-> NewObject(k, ToDomain(k))]

\* The new Repository(...) of FetchRepositoryData.execute without the
\* language.
EnrichWithoutLanguage(repository, releaseStats) ==
    Repository(repository.name, repository.owner, repository.url,
               repository.description, Null, repository.starCount,
               repository.updatedAt, releaseStats)

\* return new Repository(repository.name, ..., repository.updatedAt,
\* releaseStats)
Enrich(repository, releaseStats) ==
    Repository(repository.name, repository.owner, repository.url,
               repository.description, repository.language,
               repository.starCount, repository.updatedAt, releaseStats)

\* The try block of FetchRepositoryData.execute once the tags arrived: the
\* new object it returns, or the error raised on the way (tags.map on null).
TryEnrich(repository, value, clock, id) ==
    IF value = Null
    THEN Error("TypeError")
    ELSE LET made == Enrich(repository,
                            CalculateStats(ParseTags(value.items), clock))
         IN IF IsError(made) THEN made ELSE NewObject(id, made)

\* FetchRepositoryData.execute that gives the repository back without a
\* warning.
ExecuteDataSilent(repository, answer, clock, id) ==
    LET tried == IF IsRejected(answer)
                 THEN Error(answer.rejected)
                 ELSE TryEnrich(repository, answer.resolved, clock, id)
    IN IF IsError(tried)
       THEN [value |-> repository, warned |-> FALSE]
       ELSE [value |-> tried, warned |-> FALSE]

\* FetchRepositoryData.execute from the await on: the value it resolves
\* with, and whether the catch block logged its warning.
ExecuteData(repository, answer, clock, id) ==
    LET tried == IF IsRejected(answer)
                 THEN Error(answer.rejected)
                 ELSE TryEnrich(repository, answer.resolved, clock, id)
    IN IF IsError(tried)
       THEN [value |-> repository, warned |-> TRUE]
       ELSE [value |-> tried, warned |-> FALSE]

\* Promise.all resolving with the values in the order they arrived.
PromiseAllByCompletion(values, order) ==
    [k \in 1..Len(values) |-> values[order[k]]]

\* Promise.all: the values in the order of the promises handed in
PromiseAll(values, order) == values

\* this.repositoryProvider.getRepositoryTags(repository.owner,
\* repository.name)
GetRepositoryTagsCall(repository) ==
    [op |-> "getRepositoryTags", owner |-> repository.owner,
     name |-> repository.name]

\* A call on the Logger: the level, and the repository it reports on.
Log(level, repo) == [level |-> level, repo |-> repo]

\* What getRepositoryTags settles with: an error, the null of a provider
\* double left without an answer, or a tag array.
TagAnswers ==
    {Rejected("tags failed"),
     Resolved(Null),
     Resolved(Array(<<>>)),
     Resolved(Array(<<[name |-> <<"s", "o", "m", "e", "-", "t", "a", "g">>,
                       date |-> 0]>>)),
     Resolved(Array(<<[name |-> <<"v", "1", ".", "0", ".", "0">>,
                       date |-> MsPerDay \div 2]>>)),
     Resolved(Array(<<[name |-> <<"v", "1", ".", "0", ".", "0">>, date |-> 0],
                      [name |-> <<"v", "1", ".", "5", ".", "0", "-", "b", "e",
                                  "t", "a">>,
                       date |-> MsPerDay \div 2]>>))}

\* What listRepositories settles with.
ListAnswers ==
    {Rejected("list failed")} \cup {Resolved(ToDomainList(n)) : n \in 0..MaxRepos}

\* The number of repositories listed.
Listed(answer) == IF IsRejected(answer) THEN 0 ELSE Len(answer.resolved)

InitFetch ==
    /\ includeReleaseData \in BOOLEAN
    /\ listAnswer \in ListAnswers
    /\ tagAnswers \in [1..Listed(listAnswer) -> TagAnswers]
    /\ fpc = "start"
    /\ pending = {}
    /\ enriched = <<>>
    /\ clocks = <<>>
    /\ calls = <<>>
    /\ logged = <<>>
    /\ outcome = Unset
    /\ repositories = <<>>
    /\ completed = <<>>
    /\ VersionIdle /\ StatsIdle /\ QueriesIdle /\ CtorIdle
    /\ EdgeIdle

\* FetchRepositories.execute up to its first await
DoExecute ==
    /\ fpc = "start"
    /\ logged' = Append(logged, Log("info", Null))
    /\ calls' = Append(calls, [op |-> "listRepositories"])
    /\ fpc' = "listing"
    /\ UNCHANGED <<includeReleaseData, listAnswer, tagAnswers, pending,
                   enriched, clocks, outcome, repositories, completed>>
    /\ UNCHANGED <<versionVars, statsVars, queryVars, ctorVars, edgeVars>>

\* The catch block of FetchRepositories.execute swallowing the error and
\* going on as if the list were empty.
DoListRejectedSwallowed ==
    /\ fpc = "listing"
    /\ IsRejected(listAnswer)
    /\ logged' = Append(logged, Log("error", Null))
    /\ outcome' = Resolved(<<>>)
    /\ fpc' = "done"
    /\ UNCHANGED <<includeReleaseData, listAnswer, tagAnswers, pending,
                   enriched, clocks, calls, repositories, completed>>
    /\ UNCHANGED <<versionVars, statsVars, queryVars, ctorVars, edgeVars>>

\* listRepositories rejected: the catch block of FetchRepositories.execute
DoListRejected ==
    /\ fpc = "listing"
    /\ IsRejected(listAnswer)
    /\ logged' = Append(logged, Log("error", Null))
    /\ outcome' = Rejected(listAnswer.rejected)
    /\ fpc' = "done"
    /\ UNCHANGED <<includeReleaseData, listAnswer, tagAnswers, pending,
                   enriched, clocks, calls, repositories, completed>>
    /\ UNCHANGED <<versionVars, statsVars, queryVars, ctorVars, edgeVars>>

\* listRepositories resolved: FetchRepositories.execute returns the list as
\* it is, or starts one FetchRepositoryData.execute per repository, each
\* running up to its await of getRepositoryTags, and awaits them all.
DoListResolved ==
    /\ fpc = "listing"
    /\ ~IsRejected(listAnswer)
    /\ repositories' = listAnswer.resolved
    /\ LET n == Len(listAnswer.resolved)
       IN IF ~includeReleaseData
          THEN /\ logged' = Append(logged, Log("info", Null))
               /\ outcome' = Resolved(listAnswer.resolved)
               /\ fpc' = "done"
               /\ UNCHANGED <<calls, pending, enriched, clocks>>
          ELSE /\ logged' = Append(logged, Log("info", Null)) \o
                       [k \in 1..n |->
                           Log("debug", String(listAnswer.resolved[k].name))]
               /\ calls' = calls \o
                       [k \in 1..n |->
                           GetRepositoryTagsCall(listAnswer.resolved[k])]
               /\ pending' = 1..n
               /\ enriched' = [k \in 1..n |-> Unset]
               /\ clocks' = [k \in 1..n |-> 0]
               /\ fpc' = "enriching"
               /\ UNCHANGED outcome
    /\ UNCHANGED <<includeReleaseData, listAnswer, tagAnswers, completed>>
    /\ UNCHANGED <<versionVars, statsVars, queryVars, ctorVars, edgeVars>>

\* getRepositoryTags of one repository settled: its
\* FetchRepositoryData.execute runs to its return, reading the clock on the
\* way.
DoTagsSettled ==
    /\ fpc = "enriching"
    /\ \E i \in pending, clock \in Instants :
          /\ clock >= now
          /\ now' = clock
          /\ LET settled == ExecuteData(repositories[i], tagAnswers[i], clock,
                                        Len(repositories) + i)
             IN /\ enriched' = [enriched EXCEPT ![i] = settled.value]
                /\ logged' = IF settled.warned
                             THEN Append(logged,
                                         Log("warn",
                                             String(repositories[i].name)))
                             ELSE logged
          /\ clocks' = [clocks EXCEPT ![i] = clock]
          /\ pending' = pending \ {i}
          /\ completed' = Append(completed, i)
    /\ UNCHANGED <<includeReleaseData, listAnswer, tagAnswers, fpc, calls,
                   outcome, repositories>>
    /\ UNCHANGED <<tags, releases, origin, stats, cpc>>
    /\ UNCHANGED <<versionVars, queryVars, ctorVars, edgeVars>>

\* every FetchRepositoryData.execute resolved: Promise.all resolves and
\* FetchRepositories.execute returns
DoAllSettled ==
    /\ fpc = "enriching"
    /\ pending = {}
    /\ logged' = Append(logged, Log("info", Null))
    /\ outcome' = Resolved(PromiseAll(enriched, completed))
    /\ fpc' = "done"
    /\ UNCHANGED <<includeReleaseData, listAnswer, tagAnswers, pending,
                   enriched, clocks, calls, repositories, completed>>
    /\ UNCHANGED <<versionVars, statsVars, queryVars, ctorVars, edgeVars>>

NextFetch ==
    \/ DoExecute
    \/ DoListRejected
    \/ DoListResolved
    \/ DoTagsSettled
    \/ DoAllSettled

-----------------------------------------------------------------------------
(* GitHubRepositoryProvider *)

\* The message of an Error: a template literal and the value put into it.
Message(template, detail) == [template |-> template, detail |-> detail]

\* A message taken over from another error.
Text(message) == [text |-> message]

\* The error object a failed request of the GitHub API is rejected with;
\* the status is undefined on errors that are no HTTP response.
ApiError(status, message) == [status |-> status, message |-> message]

\* orgName || this.orgName
TargetOrg(org, configured) == IF Truthy(org) THEN org ELSE configured

\* The catch block of listRepositories treating 401 as any other failure.
ListFailureNoAuth(error, targetOrg) ==
    IF error.status = Number(404)
    THEN Error(Message("Organization '%' not found", targetOrg))
    ELSE Error(Message("Failed to fetch repositories: %", Text(error.message)))

\* The catch block of listRepositories: the error it throws
ListFailure(error, targetOrg) ==
    IF error.status = Number(404)
    THEN Error(Message("Organization '%' not found", targetOrg))
    ELSE IF error.status = Number(401)
    THEN Error(Message("GitHub authentication failed. Check your token.", Null))
    ELSE Error(Message("Failed to fetch repositories: %", Text(error.message)))

\* The catch block of getRepositoryTags: the error it throws
TagsFailure(error, owner, repo) ==
    IF error.status = Number(404)
    THEN Error(Message("Repository '%' not found",
                       [owner |-> owner, repo |-> repo]))
    ELSE IF error.status = Number(401)
    THEN Error(Message("GitHub authentication failed. Check your token.", Null))
    ELSE Error(Message("Failed to fetch tags for %: %",
                       [owner |-> owner, repo |-> repo,
                        text |-> error.message]))

\* The data of repos.listForOrg: so many repositories, the last of them
\* without a name when nameless.
GithubRepos(n, nameless) == [count |-> n, nameless |-> nameless]

\* RepositoryMapper.toDomainList(repos): the list, or the error the
\* Repository constructor raises on the repository without a name
MapRepos(data) ==
    IF data.nameless
    THEN Repository(<<>>, <<"o">>,
                    <<"h", "t", "t", "p", "s", ":", "/", "/", "x">>,
                    Null, Null, 0, 0, Null)
    ELSE Array(ToDomainList(data.count))

\* ReleaseMapper.mapTag: the commit date, or new Date() when the API tag
\* carries none
MapTag(apiTag, clock) ==
    [name |-> apiTag.name,
     date |-> IF apiTag.date = Undefined THEN clock ELSE apiTag.date.number]

\* ReleaseMapper.mapTags
MapTagList(apiTags, clock) ==
    [k \in 1..Len(apiTags) |-> MapTag(apiTags[k], clock)]

\* listRepositories once the request settled
ListSettled(answer, targetOrg) ==
    IF IsRejected(answer)
    THEN Rejected(ListFailure(answer.rejected, targetOrg))
    ELSE LET mapped == MapRepos(answer.resolved)
         IN IF IsError(mapped)
            THEN Rejected(ListFailure(ApiError(Undefined, mapped.error),
                                      targetOrg))
            ELSE Resolved(mapped.items)

\* getRepositoryTags once the request settled
TagsSettled(answer, owner, repo, clock) ==
    IF IsRejected(answer)
    THEN Rejected(TagsFailure(answer.rejected, owner, repo))
    ELSE Resolved(MapTagList(answer.resolved, clock))

\* The failures of a request.
ApiErrors ==
    {ApiError(Number(404), "Not Found"),
     ApiError(Number(401), "Bad credentials"),
     ApiError(Number(403), "rate limit exceeded"),
     ApiError(Number(500), "Server Error"),
     ApiError(Undefined, "getaddrinfo ENOTFOUND")}

ListApiAnswers ==
    {Rejected(e) : e \in ApiErrors}
    \cup {Resolved(GithubRepos(n, b)) : n \in 0..MaxRepos, b \in BOOLEAN}

TagsApiAnswers ==
    {Rejected(e) : e \in ApiErrors}
    \cup {Resolved(<<>>),
          Resolved(<<[name |-> <<"v", "1", ".", "0", ".", "0">>,
                      date |-> Number(0)],
                     [name |-> <<"s", "o", "m", "e", "-", "t", "a", "g">>,
                      date |-> Undefined]>>)}

OrgNames == {Undefined, String(<<>>), String(<<"a", "c", "m", "e">>)}
ConfiguredOrgs == {String(<<>>), String(<<"o", "r", "g">>)}

\* The owner and repository getRepositoryTags is called with.
TagsOwner == <<"o">>
TagsRepo == <<"r", "1">>

InitProvider ==
    /\ method \in {"listRepositories", "getRepositoryTags"}
    /\ orgName \in IF method = "listRepositories" THEN OrgNames ELSE {Undefined}
    /\ configuredOrg \in ConfiguredOrgs
    /\ apiAnswer \in IF method = "listRepositories"
                     THEN ListApiAnswers
                     ELSE TagsApiAnswers
    /\ apiCalls = <<>>
    /\ provided = Unset
    /\ ppc = "start"
    /\ CoreIdle /\ UserIdle /\ AuthIdle /\ RouteIdle /\ ViewIdle

\* listRepositories(orgName) up to its await, or to the throw before it
DoListRepositories ==
    /\ ppc = "start"
    /\ method = "listRepositories"
    /\ LET targetOrg == TargetOrg(orgName, configuredOrg)
       IN IF ~Truthy(targetOrg)
          THEN /\ provided' =
                     Rejected(Error(Message("Organization name is required",
                                            Null)))
               /\ ppc' = "done"
               /\ UNCHANGED apiCalls
          ELSE /\ apiCalls' = Append(apiCalls, [api |-> "repos.listForOrg",
                                                org |-> targetOrg])
               /\ ppc' = "awaiting"
               /\ UNCHANGED provided
    /\ UNCHANGED <<method, orgName, configuredOrg, apiAnswer>>
    /\ UNCHANGED <<coreVars, userVars, authVars, routeVars, viewVars>>

\* getRepositoryTags(owner, repo) up to its await
DoGetRepositoryTags ==
    /\ ppc = "start"
    /\ method = "getRepositoryTags"
    /\ apiCalls' = Append(apiCalls, [api |-> "repos.listTags",
                                     owner |-> TagsOwner, repo |-> TagsRepo])
    /\ ppc' = "awaiting"
    /\ UNCHANGED <<method, orgName, configuredOrg, apiAnswer, provided>>
    /\ UNCHANGED <<coreVars, userVars, authVars, routeVars, viewVars>>

\* The request settled: the rest of the try block, or the catch block
DoApiSettled ==
    /\ ppc = "awaiting"
    /\ \E clock \in Instants :
          provided' =
              IF method = "listRepositories"
              THEN ListSettled(apiAnswer, TargetOrg(orgName, configuredOrg))
              ELSE TagsSettled(apiAnswer, TagsOwner, TagsRepo, clock)
    /\ ppc' = "done"
    /\ UNCHANGED <<method, orgName, configuredOrg, apiAnswer, apiCalls>>
    /\ UNCHANGED <<coreVars, userVars, authVars, routeVars, viewVars>>

NextProvider ==
    \/ DoListRepositories
    \/ DoGetRepositoryTags
    \/ DoApiSettled

-----------------------------------------------------------------------------
(* NextAuthProvider *)

\* 'developer@localhost'
DeveloperEmail ==
    <<"d", "e", "v", "e", "l", "o", "p", "e", "r", "@",
      "l", "o", "c", "a", "l", "h", "o", "s", "t">>

\* A value returned from, or an error thrown in, an async function: the
\* promise it settles.
Settle(value) == IF IsError(value) THEN Rejected(value) ELSE Resolved(value)

\* The session of getServerSession, and the user it carries.
Session(sessionUser) == [user |-> sessionUser]
SessionUser(mail, name) == [email |-> mail, name |-> name]

\* !session?.user?.email
NoSessionEmail(s) ==
    \/ s = Null
    \/ s.user = Null
    \/ ~Truthy(s.user.email)

\* getCurrentUser with authentication disabled: return new User('dev-user',
\* 'developer@localhost', 'Development User'), outside the try block
MockUser ==
    User(<<"d", "e", "v", "-", "u", "s", "e", "r">>, DeveloperEmail,
         String(<<"D", "e", "v">>))

\* getCurrentUser once getServerSession settled: the try block from the
\* await on, and the catch block
SessionSettled(answer) ==
    IF IsRejected(answer)
    THEN Resolved(Null)
    ELSE IF NoSessionEmail(answer.resolved)
    THEN Resolved(Null)
    ELSE LET sessionUser == answer.resolved.user
             made == User(sessionUser.email.chars, sessionUser.email.chars,
                          IF Truthy(sessionUser.name)
                          THEN sessionUser.name
                          ELSE Null)
         IN IF IsError(made) THEN Resolved(Null) ELSE Resolved(made)

\* What getServerSession settles with.
Sessions ==
    {Rejected("session failed"), Resolved(Null), Resolved(Session(Null))}
    \cup {Resolved(Session(SessionUser(mail, name))) :
            mail \in {Undefined} \cup {String(e) : e \in Emails},
            name \in {Undefined, String(<<"n">>)}}

InitAuth ==
    /\ authEnabled \in BOOLEAN
    /\ session \in Sessions
    /\ currentUser = Unset
    /\ apc = "start"
    /\ CoreIdle /\ UserIdle /\ ProviderIdle /\ RouteIdle /\ ViewIdle

\* getCurrentUser up to its await, or to its return when authentication is
\* disabled
DoGetCurrentUser ==
    /\ apc = "start"
    /\ IF ~authEnabled
       THEN /\ currentUser' = Settle(MockUser)
            /\ apc' = "done"
       ELSE /\ apc' = "awaiting"
            /\ UNCHANGED currentUser
    /\ UNCHANGED <<authEnabled, session>>
    /\ UNCHANGED <<coreVars, userVars, providerVars, routeVars,
                   viewVars>>

\* getServerSession settled
DoSessionSettled ==
    /\ apc = "awaiting"
    /\ currentUser' = SessionSettled(session)
    /\ apc' = "done"
    /\ UNCHANGED <<authEnabled, session>>
    /\ UNCHANGED <<coreVars, userVars, providerVars, routeVars,
                   viewVars>>

NextAuth ==
    \/ DoGetCurrentUser
    \/ DoSessionSettled

-----------------------------------------------------------------------------
(* The dashboard: the JSON of a repository and its card *)

\* Date.prototype.toISOString of a valid date
ToISOString(t) == [iso |-> t]

\* latestRelease ? { tagName, date: date.toISOString(),
\* version: version?.toString() || null } : null
ReleaseJson(release) ==
    IF release = Null
    THEN Null
    ELSE [tagName |-> release.tagName,
          date |-> ToISOString(release.date),
          version |-> IF release.version = Null
                      THEN Null
                      ELSE String(ToString(release.version))]

\* repo.releaseStats ? { ... } : null
ReleaseStatsJson(st) ==
    IF st = Null
    THEN Null
    ELSE [totalReleases |-> st.totalReleases,
          semanticReleases |-> st.semanticReleases,
          latestRelease |-> ReleaseJson(st.latestRelease),
          latestSemanticRelease |-> ReleaseJson(st.latestSemanticRelease),
          daysSinceLatestRelease |-> st.daysSinceLatestRelease]

\* repositories.map(repo => ({ ... })): one repository of the response
RepositoryJson(repo) ==
    [name |-> repo.name, owner |-> repo.owner, url |-> repo.url,
     description |-> repo.description, language |-> repo.language,
     starCount |-> repo.starCount,
     updatedAt |-> ToISOString(repo.updatedAt),
     releaseStats |-> ReleaseStatsJson(repo.releaseStats)]

\* formatDaysAgo(days): the number it writes and the words around it
FormatDaysAgo(days) ==
    IF days = 0 THEN [amount |-> 0, words |-> "today"]
    ELSE IF days = 1 THEN [amount |-> 1, words |-> "day ago"]
    ELSE IF days < 30 THEN [amount |-> days, words |-> "days ago"]
    ELSE IF days < 60 THEN [amount |-> 1, words |-> "month ago"]
    ELSE IF days < 365 THEN [amount |-> days \div 30, words |-> "months ago"]
    ELSE IF days \div 365 = 1 THEN [amount |-> 1, words |-> "year ago"]
    ELSE [amount |-> days \div 365, words |-> "years ago"]

\* daysSinceLatestRelease || 0
OrZero(days) == IF days = Null THEN 0 ELSE days.number

\* The version badge and the age beside it: v{latestSemanticRelease.version}
\* and formatDaysAgo(daysSinceLatestRelease || 0)
Badge(st) ==
    IF st.latestSemanticRelease = Null
    THEN Null
    ELSE [version |-> <<"v">> \o
                      (IF st.latestSemanticRelease.version = Null
                       THEN <<>>
                       ELSE st.latestSemanticRelease.version.chars),
          age |-> FormatDaysAgo(OrZero(st.daysSinceLatestRelease))]

\* RepositoryCard: the release information it renders, null when it renders
\* none
RepositoryCard(repo) ==
    IF repo.releaseStats # Null /\ repo.releaseStats.totalReleases > 0
    THEN [releases |-> repo.releaseStats.totalReleases,
          badge |-> Badge(repo.releaseStats)]
    ELSE Null

\* Tag names of the repositories on the dashboard: those of TagNames, one
\* with a leading zero and one with a component of 10^21.
CardTagNames ==
    TagNames
    \cup {<<"v", "0", "1", ".", "2", ".", "3">>,
          <<"1", "0", "0", "0", "0", "0", "0", "0", "0", "0", "0", "0", "0",
            "0", "0", "0", "0", "0", "0", "0", "0", "0", ".", "0", ".", "0">>}

CardTagLists ==
    UNION {[1..n -> [name : CardTagNames, date : Instants]] : n \in 0..MaxFew}

InitView ==
    /\ tags \in CardTagLists
    /\ releases = Unset
    /\ origin = "none"
    /\ stats = Unset
    /\ now = 0
    /\ cpc = "tags"
    /\ shown = Unset
    /\ latestVersion = Unset
    /\ json = Unset
    /\ card = Unset
    /\ dpc = "start"
    /\ VersionIdle /\ QueriesIdle /\ CtorIdle /\ FetchIdle
    /\ UserIdle /\ ProviderIdle /\ AuthIdle /\ RouteIdle

\* FetchRepositoryData.execute: return new Repository(..., releaseStats)
DoEnrich ==
    /\ cpc = "stats"
    /\ dpc = "start"
    /\ shown' = Enrich(ToDomain(1), stats)
    /\ dpc' = "enriched"
    /\ UNCHANGED <<latestVersion, json, card>>
    /\ UNCHANGED <<coreVars, userVars, providerVars, authVars, routeVars>>

\* repository.getLatestReleaseVersion()
DoGetLatestReleaseVersion ==
    /\ dpc = "enriched"
    /\ latestVersion' = GetLatestReleaseVersion(shown)
    /\ dpc' = "asked"
    /\ UNCHANGED <<shown, json, card>>
    /\ UNCHANGED <<coreVars, userVars, providerVars, authVars, routeVars>>

\* GET /api/repositories writing the repository into its response
DoSerialize ==
    /\ dpc = "enriched"
    /\ json' = RepositoryJson(shown)
    /\ dpc' = "json"
    /\ UNCHANGED <<shown, latestVersion, card>>
    /\ UNCHANGED <<coreVars, userVars, providerVars, authVars, routeVars>>

\* The dashboard rendering the card of the repository
DoRenderCard ==
    /\ dpc = "json"
    /\ card' = RepositoryCard(json)
    /\ dpc' = "card"
    /\ UNCHANGED <<shown, latestVersion, json>>
    /\ UNCHANGED <<coreVars, userVars, providerVars, authVars, routeVars>>

NextView ==
    \/ DoParseTags
    \/ DoCalculateStats
    \/ DoEnrich
    \/ DoGetLatestReleaseVersion
    \/ DoSerialize
    \/ DoRenderCard

-----------------------------------------------------------------------------
(* GET /api/repositories *)

\* NextResponse.json({ error }, { status })
ErrorResponse(status, error) == [status |-> status, error |-> error]

\* NextResponse.json({ repositories, count, organization, timestamp })
OkResponse(repos, org) ==
    [status |-> 200, count |-> Len(repos), organization |-> org,
     repositories |-> [k \in 1..Len(repos) |-> RepositoryJson(repos[k])]]

\* The validation of the GitHub configuration without the test of the
\* token.
ConfigurationFailureNoToken(org, token) ==
    IF ~Truthy(org)
    THEN ErrorResponse(500, "GitHub organization not configured")
    ELSE Null

\* The validation of the GitHub configuration: the response it returns, or
\* null when the handler goes on
ConfigurationFailure(org, token) ==
    IF ~Truthy(org)
    THEN ErrorResponse(500, "GitHub organization not configured")
    ELSE IF ~Truthy(token)
    THEN ErrorResponse(500, "GitHub token not configured")
    ELSE Null

\* The handler from the validation of the configuration to its await of
\* fetchRepositories.execute(githubOrg), or to the response it returns
ValidateAndExecute ==
    LET failure == ConfigurationFailure(githubOrg, githubToken)
    IN IF failure # Null
       THEN /\ response' = failure
            /\ rpc' = "done"
            /\ UNCHANGED fpc
       ELSE /\ fpc' = "start"
            /\ rpc' = "fetching"
            /\ UNCHANGED response

\* What getServerSession settles with, for the handler.
RouteSessions ==
    {Rejected("session failed"),
     Resolved(Null),
     Resolved(Session(SessionUser(String(<<"a", "@", "B">>), Undefined))),
     Resolved(Session(SessionUser(String(<<"a", "@", "B", ".", "a">>),
                                  String(<<"n">>))))}

\* process.env.GITHUB_ORG || '' and process.env.GITHUB_TOKEN || ''
Settings == {String(<<>>), String(<<"x">>)}

InitRoute ==
    /\ authEnabled \in BOOLEAN
    /\ session \in RouteSessions
    /\ currentUser = Unset
    /\ apc = "idle"
    /\ githubOrg \in Settings
    /\ githubToken \in Settings
    /\ response = Unset
    /\ rpc = "start"
    /\ includeReleaseData = TRUE
    /\ listAnswer \in ListAnswers
    /\ tagAnswers \in [1..Listed(listAnswer) -> TagAnswers]
    /\ fpc = "idle"
    /\ pending = {}
    /\ enriched = <<>>
    /\ clocks = <<>>
    /\ calls = <<>>
    /\ logged = <<>>
    /\ outcome = Unset
    /\ repositories = <<>>
    /\ completed = <<>>
    /\ VersionIdle /\ StatsIdle /\ QueriesIdle /\ CtorIdle
    /\ UserIdle /\ ProviderIdle /\ ViewIdle

\* GET up to its first await: of getCurrentUser when authentication is
\* enabled, else of fetchRepositories.execute, or to the response of a
\* missing configuration
DoGet ==
    /\ rpc = "start"
    /\ IF authEnabled
       THEN /\ apc' = "start"
            /\ rpc' = "authenticating"
            /\ UNCHANGED <<response, fpc, logged>>
       ELSE /\ logged' = Append(logged, Log("debug", Null))
            /\ ValidateAndExecute
            /\ UNCHANGED apc
    /\ UNCHANGED <<authEnabled, session, currentUser, githubOrg, githubToken>>
    /\ UNCHANGED <<includeReleaseData, listAnswer, tagAnswers, pending,
                   enriched, clocks, calls, outcome, repositories, completed>>
    /\ UNCHANGED <<versionVars, statsVars, queryVars, ctorVars>>
    /\ UNCHANGED <<userVars, providerVars, viewVars>>

\* getCurrentUser settled: 401 without a user, the catch block when it
\* rejected, else on to the configuration
DoUserSettled ==
    /\ rpc = "authenticating"
    /\ apc = "done"
    /\ IF IsRejected(currentUser)
       THEN /\ logged' = Append(logged, Log("error", Null))
            /\ response' = ErrorResponse(500, "Failed to fetch repositories")
            /\ rpc' = "done"
            /\ UNCHANGED fpc
       ELSE IF currentUser.resolved = Null
       THEN /\ response' = ErrorResponse(401, "Unauthorized")
            /\ rpc' = "done"
            /\ UNCHANGED <<fpc, logged>>
       ELSE /\ logged' = Append(logged, Log("info", Null))
            /\ ValidateAndExecute
    /\ UNCHANGED <<authVars, githubOrg, githubToken>>
    /\ UNCHANGED <<includeReleaseData, listAnswer, tagAnswers, pending,
                   enriched, clocks, calls, outcome, repositories, completed>>
    /\ UNCHANGED <<versionVars, statsVars, queryVars, ctorVars>>
    /\ UNCHANGED <<userVars, providerVars, viewVars>>

\* fetchRepositories.execute settled: the JSON of the repositories, or the
\* catch block
DoExecuteSettled ==
    /\ rpc = "fetching"
    /\ fpc = "done"
    /\ IF IsRejected(outcome)
       THEN /\ logged' = Append(logged, Log("error", Null))
            /\ response' = ErrorResponse(500, "Failed to fetch repositories")
       ELSE /\ response' = OkResponse(outcome.resolved, githubOrg)
            /\ UNCHANGED logged
    /\ rpc' = "done"
    /\ UNCHANGED <<authVars, githubOrg, githubToken>>
    /\ UNCHANGED <<includeReleaseData, listAnswer, tagAnswers, fpc, pending,
                   enriched, clocks, calls, outcome, repositories, completed>>
    /\ UNCHANGED <<versionVars, statsVars, queryVars, ctorVars>>
    /\ UNCHANGED <<userVars, providerVars, viewVars>>

NextRoute ==
    \/ DoGet
    \/ DoUserSettled
    \/ DoExecuteSettled
    \/ NextAuth
    \/ NextFetch

-----------------------------------------------------------------------------
(* Specifications *)

\* The callers of SemanticVersion alone.
SpecVersion == InitVersion /\ [][NextVersion]_vars

\* The callers of ReleaseCalculator alone.
SpecStats == InitStats /\ [][NextStats]_vars

\* The callers of filterSemanticVersions and getLatestReleases.
SpecQueries == InitStats /\ [][NextQueries]_vars

\* The callers that ask for the age of a release.
SpecRecent == InitRecent /\ [][NextRecent]_vars

\* The callers of the Repository constructor.
SpecRepository == InitRepository /\ [][NextRepository]_vars

\* FetchRepositories.execute against a provider.
SpecFetch == InitFetch /\ [][NextFetch]_vars

\* The callers of User.
SpecUser == InitUser /\ [][NextUser]_vars

\* The callers that make each ReleaseCalculator call twice.
SpecPure == InitRecent /\ [][NextPure]_vars

\* The callers of NextAuthProvider.getCurrentUser.
SpecAuth == InitAuth /\ [][NextAuth]_vars

\* A repository on its way from its tags to its card.
SpecView == InitView /\ [][NextView]_vars

\* A request of GET /api/repositories.
SpecRoute == InitRoute /\ [][NextRoute]_vars

\* The callers of GitHubRepositoryProvider.
SpecProvider == InitProvider /\ [][NextProvider]_vars

Init ==
    \/ InitVersion
    \/ InitStats
    \/ InitRecent
    \/ InitRepository
    \/ InitFetch
    \/ InitUser
    \/ InitProvider
    \/ InitAuth
    \/ InitRoute
    \/ InitView

Next ==
    \/ NextVersion
    \/ NextStats
    \/ NextQueries
    \/ NextRecent
    \/ NextRepository
    \/ NextFetch
    \/ NextUser
    \/ NextProvider
    \/ NextPure
    \/ NextAuth
    \/ NextRoute
    \/ NextView

Spec == Init /\ [][Next]_vars

-----------------------------------------------------------------------------
(* Properties of ReleaseCalculator.parseTags and calculateStats *)

\* The (name, date) pair a Release carries.
TagOf(release) == [name |-> release.tagName, date |-> release.date]

\* How often a tag occurs in the tag array, and in the Release array.
CountInTags(t) == Cardinality({i \in DOMAIN tags : tags[i] = t})
CountInReleases(t) == Cardinality({i \in DOMAIN releases : TagOf(releases[i]) = t})

FromParseTags == cpc \in {"releases", "stats"} /\ origin = "parseTags"

\* C1: the result of parseTags has the length of its input, holds one Release
\* per tag with that tag's name and date (each tag as often as the input has
\* it), and is ordered by date descending: no element is older than its
\* successor.
C1_ParseTagsSortedPermutation ==
    FromParseTags =>
        /\ Len(releases) = Len(tags)
        /\ \A i \in DOMAIN tags : CountInReleases(tags[i]) = CountInTags(tags[i])
        /\ \A i \in 1..(Len(releases) - 1) :
              releases[i].date >= releases[i + 1].date

\* parseTags has run on three tags given oldest first, two of them of one date.
C1_Witness ==
    /\ FromParseTags
    /\ Len(tags) = 3
    /\ tags[1].date < tags[2].date
    /\ tags[2].date = tags[3].date
    /\ releases[3] = Release(tags[1].name, tags[1].date, Parse(tags[1].name))

\* C2: calculateStats does not re-sort: for every non-empty Release array,
\* sorted by date or not, latestRelease is present and is the first element of
\* the array.
C2_LatestIsFirstOfInput ==
    (cpc = "stats" /\ Len(releases) > 0) =>
        /\ stats.latestRelease # Null
        /\ stats.latestRelease = releases[1]

\* calculateStats has run on an array whose first element is older than its
\* second.
C2_Witness ==
    /\ cpc = "stats"
    /\ origin = "new"
    /\ Len(releases) >= 2
    /\ releases[1].date < releases[2].date
    /\ stats.latestRelease = releases[1]

\* C3: totalReleases is the length of the input of calculateStats, and
\* 0 <= semanticReleases <= totalReleases.
C3_CountsWithinTotal ==
    cpc = "stats" =>
        /\ stats.totalReleases = Len(releases)
        /\ 0 <= stats.semanticReleases
        /\ stats.semanticReleases <= stats.totalReleases

\* calculateStats has counted some, not all, releases as semantic.
C3_Witness ==
    /\ cpc = "stats"
    /\ stats.totalReleases = 3
    /\ stats.semanticReleases = 1

\* C4: calculateStats of the empty array is ReleaseStats(0, 0, null, null,
\* null); and whenever totalReleases is 0, latestRelease, latestSemanticRelease
\* and daysSinceLatestRelease are null and hasReleases() is false.
C4_EmptyStatsAllAbsent ==
    cpc = "stats" =>
        /\ Len(releases) = 0 => stats = ReleaseStats(0, 0, Null, Null, Null)
        /\ stats.totalReleases = 0 =>
              /\ stats.latestRelease = Null
              /\ stats.latestSemanticRelease = Null
              /\ stats.daysSinceLatestRelease = Null
              /\ ~HasReleases(stats)

\* calculateStats has run on the empty array.
C4_Witness ==
    /\ cpc = "stats"
    /\ releases = <<>>
    /\ stats.totalReleases = 0
    /\ stats.semanticReleases = 0

\* A tag name that parses as a version and carries no pre-release suffix.
IsReleaseName(name) ==
    Parse(name) # Null /\ Parse(name).preRelease = Undefined

\* C5: in calculateStats(parseTags(tags)), totalReleases counts every tag and
\* semanticReleases counts the tags whose name parses as a version without a
\* pre-release suffix; a pre-release tag and a tag that is no version are never
\* the latestSemanticRelease.
C5_SemanticCountExcludesPreReleases ==
    (cpc = "stats" /\ origin = "parseTags") =>
        /\ stats.totalReleases = Len(tags)
        /\ stats.semanticReleases =
              Cardinality({i \in DOMAIN tags : IsReleaseName(tags[i].name)})
        /\ stats.latestSemanticRelease # Null =>
              IsReleaseName(stats.latestSemanticRelease.tagName)

\* Statistics of a release, a pre-release and a tag that is no version, the
\* release being the oldest of the three.
C5_Witness ==
    /\ cpc = "stats"
    /\ origin = "parseTags"
    /\ Len(tags) = 3
    /\ stats.semanticReleases = 1
    /\ \E i \in DOMAIN tags : Parse(tags[i].name) = Null
    /\ \E i \in DOMAIN tags :
          Parse(tags[i].name) # Null /\ Parse(tags[i].name).preRelease # Undefined
    /\ stats.latestSemanticRelease = releases[3]

\* The positions of the input of calculateStats that hold a semantic version.
SemanticPositions == {i \in DOMAIN releases : HasSemanticVersion(releases[i])}

\* C6: latestSemanticRelease is the first element of the input, in input
\* order, that has a semantic version, and null exactly when no element has
\* one: it is present if and only if semanticReleases > 0.
C6_LatestSemanticIsFirstSemantic ==
    cpc = "stats" =>
        /\ SemanticPositions = {} =>
              /\ stats.latestSemanticRelease = Null
              /\ stats.semanticReleases = 0
        /\ SemanticPositions # {} =>
              /\ stats.semanticReleases > 0
              /\ \E i \in SemanticPositions :
                    /\ \A j \in SemanticPositions : i <= j
                    /\ stats.latestSemanticRelease = releases[i]

\* calculateStats has run on an array with two semantic versions of different
\* dates behind an element that has none.
C6_Witness ==
    /\ cpc = "stats"
    /\ Len(releases) = 3
    /\ SemanticPositions = {2, 3}
    /\ releases[2].date < releases[3].date
    /\ stats.latestSemanticRelease = releases[2]

-----------------------------------------------------------------------------
(* Properties of SemanticVersion.parse and toString *)

\* SemanticVersion.parse(version) has returned.
ParseReturned == vpc \in {"parsed", "prefixed", "rendered", "reparsed"}

AllDigits(text, i, j) == i <= j /\ \A k \in i..j : text[k] \in Digits

\* Three dot-separated runs of one or more digits, and nothing else.
ThreeNumbers(text) ==
    \E d1, d2 \in 1..Len(text) :
        /\ d1 < d2
        /\ text[d1] = "." /\ text[d2] = "."
        /\ AllDigits(text, 1, d1 - 1)
        /\ AllDigits(text, d1 + 1, d2 - 1)
        /\ AllDigits(text, d2 + 1, Len(text))

\* An optional single lowercase v, then three numbers.
PrefixedNumbers(text) ==
    \/ ThreeNumbers(text)
    \/ Len(text) > 0 /\ text[1] = "v" /\ ThreeNumbers(Tail(text))

\* The position of the first "-" of a text, 0 when it has none.
FirstHyphen(text) ==
    IF \E k \in 1..Len(text) : text[k] = "-"
    THEN CHOOSE k \in 1..Len(text) :
            text[k] = "-" /\ \A j \in 1..(k - 1) : text[j] # "-"
    ELSE 0

BeforeFirstHyphen(text) == SubSeq(text, 1, FirstHyphen(text) - 1)
AfterFirstHyphen(text) == SubSeq(text, FirstHyphen(text) + 1, Len(text))

\* The form the claim C7 gives: v?digits.digits.digits, then optionally "-"
\* and a non-empty suffix.
HasVersionForm(text) ==
    \/ PrefixedNumbers(text)
    \/ /\ FirstHyphen(text) > 0
       /\ PrefixedNumbers(BeforeFirstHyphen(text))
       /\ AfterFirstHyphen(text) # <<>>

\* The same form with a suffix that holds no line terminator.
HasOneLineVersionForm(text) ==
    /\ HasVersionForm(text)
    /\ \A k \in 1..Len(text) : text[k] \notin LineTerminators

\* C7 as stated: parse returns a version exactly for the inputs of the form
\* v?digits.digits.digits(-suffix)? with any non-empty suffix.
C7_AsStated ==
    ParseReturned => (parsed # Null <=> HasVersionForm(version))

\* C7: parse returns a version exactly for the inputs of the form
\* v?digits.digits.digits(-suffix)? whose non-empty suffix holds no line
\* terminator, and null for every other input: fewer than three numbers, a
\* component that is no number, an uppercase V, two leading v, a "-" followed
\* by nothing.
C7_ParseAcceptsExactlyVersionForm ==
    ParseReturned => (parsed # Null <=> HasOneLineVersionForm(version))

\* parse has accepted an input with the prefix, a leading zero and a suffix.
C7_Witness ==
    /\ vpc = "parsed"
    /\ parsed # Null
    /\ version[1] = "v"
    /\ version[2] = "0"
    /\ parsed.major = <<"1">>
    /\ parsed.preRelease # Undefined

\* C8 as stated: an input with a whitespace character after its first "-" is
\* rejected, and an accepted input's preRelease is the text after the first
\* "-".
C8_AsStated ==
    ParseReturned =>
        /\ (/\ FirstHyphen(version) > 0
            /\ \E k \in 1..Len(AfterFirstHyphen(version)) :
                  AfterFirstHyphen(version)[k] \in WhiteSpace)
               => parsed = Null
        /\ (parsed # Null /\ FirstHyphen(version) > 0)
               => parsed.preRelease = String(AfterFirstHyphen(version))

\* C8: the pre-release suffix is one or more characters none of which is a
\* line terminator, spaces included: v?digits.digits.digits followed by "-" and
\* such a suffix is accepted, an input with a line terminator after its first
\* "-" is rejected, and an accepted input's preRelease is the text after the
\* first "-" verbatim (undefined when there is no "-").
C8_SuffixIsAnyOneLineText ==
    ParseReturned =>
        /\ (/\ FirstHyphen(version) > 0
            /\ PrefixedNumbers(BeforeFirstHyphen(version))
            /\ AfterFirstHyphen(version) # <<>>
            /\ \A k \in 1..Len(AfterFirstHyphen(version)) :
                  AfterFirstHyphen(version)[k] \notin LineTerminators)
               => parsed # Null
        /\ (/\ FirstHyphen(version) > 0
            /\ \E k \in 1..Len(AfterFirstHyphen(version)) :
                  AfterFirstHyphen(version)[k] \in LineTerminators)
               => parsed = Null
        /\ parsed # Null =>
              parsed.preRelease =
                 IF FirstHyphen(version) > 0
                 THEN String(AfterFirstHyphen(version))
                 ELSE Undefined

\* parse has accepted an input whose suffix holds a space.
C8_Witness ==
    /\ vpc = "parsed"
    /\ parsed # Null
    /\ parsed.preRelease = String(<<"b", "e", "t", "a", " ", "1">>)

\* C9: for every input parse accepts, parsing the toString() of the result
\* succeeds and gives the same major, minor, patch and preRelease.
C9_RoundTrip ==
    vpc = "reparsed" => (reparsed # Null /\ reparsed = parsed)

\* The form of s in the claim C10: digits.digits.digits(-suffix)?, no prefix.
HasBareForm(text) == HasVersionForm(text) /\ text[1] # "v"

\* C10: the leading v is not significant: for s of the form
\* digits.digits.digits(-suffix)?, parse("v" + s) equals parse(s), a version
\* when the suffix holds no line terminator; and no toString() of a parsed
\* version begins with v.
C10_LeadingVNotSignificant ==
    /\ (vpc = "prefixed" /\ HasBareForm(version)) =>
          /\ prefixed = parsed
          /\ HasOneLineVersionForm(version) => prefixed # Null
    /\ vpc \in {"rendered", "reparsed"} => rendered[1] # "v"

\* parse("v" + s) has returned a version with a pre-release for an s without
\* the prefix.
C10_Witness ==
    /\ vpc = "prefixed"
    /\ HasBareForm(version)
    /\ prefixed # Null
    /\ prefixed.preRelease # Undefined

-----------------------------------------------------------------------------
(* Properties of filterSemanticVersions and getLatestReleases *)

\* The number of releases with a semantic version among the first i of the
\* input.
SemanticUpTo(i) == Cardinality({j \in 1..i : HasSemanticVersion(releases[j])})

\* C11: filterSemanticVersions returns a subsequence of its input: exactly
\* the elements for which hasSemanticVersion() is true, each once, in the
\* relative order of the input. The k-th element of the result is the input
\* element at the k-th position that holds a semantic version.
C11_FilterIsOrderedSubsequence ==
    cpc = "filtered" =>
        /\ Len(filtered) = Cardinality(SemanticPositions)
        /\ \A i \in SemanticPositions : filtered[SemanticUpTo(i)] = releases[i]

C11_Witness ==
    /\ cpc = "filtered"
    /\ origin = "new"
    /\ Len(releases) = 3
    /\ Len(filtered) = 2
    /\ ~HasSemanticVersion(releases[2])
    /\ filtered[1].date < filtered[2].date

\* C12: for every count >= 0, getLatestReleases returns the prefix of the
\* input of length min(count, length of the input), in input order, with no
\* re-sort by date.
C12_LatestIsPrefix ==
    (cpc = "latest" /\ count >= 0) =>
        /\ Len(latestReleases) = Min(count, Len(releases))
        /\ \A i \in DOMAIN latestReleases : latestReleases[i] = releases[i]

C12_Witness ==
    /\ cpc = "latest"
    /\ origin = "new"
    /\ count = 2
    /\ Len(releases) = 3
    /\ releases[1].date < releases[2].date
    /\ releases[2].date < releases[3].date
    /\ latestReleases = <<releases[1], releases[2]>>

-----------------------------------------------------------------------------
(* Properties of getDaysSince, calculateDaysSince and isRecentRelease *)

\* The distance in milliseconds between the clock value read and the date.
Distance == IF now < sinceDate THEN sinceDate - now ELSE now - sinceDate

\* C13: isRecentRelease(release, withinDays) is true if and only if
\* release.getDaysSince() <= withinDays, the boundary included: a release
\* exactly withinDays whole days old is recent, one of withinDays + 1 whole
\* days is not.
C13_RecentBoundaryIncluded ==
    cpc = "isRecentRelease" =>
        /\ recent <=> daysSince <= within
        /\ recent <=> Distance < (within + 1) * MsPerDay
        /\ Distance = within * MsPerDay => recent
        /\ Distance = (within + 1) * MsPerDay => ~recent

C13_Witness ==
    /\ cpc = "isRecentRelease"
    /\ within = 1
    /\ Distance = MsPerDay
    /\ recent

\* One more case of C13: a release of withinDays + 1 whole days is refused.
C13_WitnessOlder ==
    /\ cpc = "isRecentRelease"
    /\ within = 0
    /\ Distance = MsPerDay
    /\ ~recent

\* d is floor(distance / one day) of the date against the clock.
IsWholeDays(d, instant, clock) ==
    LET distance == IF clock < instant THEN instant - clock ELSE clock - instant
    IN /\ d >= 0
       /\ d * MsPerDay <= distance
       /\ distance < (d + 1) * MsPerDay

\* C14: calculateDaysSince(date) and Release.getDaysSince() both return
\* floor(|now - date| / one day) for the clock value read at the call: a
\* non-negative integer, 0 when the date equals now, the same for a date d
\* days ahead as for one d days back; daysSinceLatestRelease of ReleaseStats
\* is this value for latestRelease.date and is never negative.
C14_DaysSinceIsWholeDaysOfDistance ==
    /\ cpc \in {"getDaysSince", "calculateDaysSince", "isRecentRelease"} =>
          /\ IsWholeDays(daysSince, sinceDate, now)
          /\ sinceDate = now => daysSince = 0
    /\ (cpc = "stats" /\ stats.latestRelease # Null) =>
          /\ stats.daysSinceLatestRelease # Null
          /\ IsWholeDays(stats.daysSinceLatestRelease.number,
                         stats.latestRelease.date, now)

C14_Witness ==
    /\ cpc = "getDaysSince"
    /\ sinceDate = now + MsPerDay
    /\ daysSince = 1

\* One more case of C14: the statistics of a latest release dated ahead of
\* the clock.
C14_WitnessStats ==
    /\ cpc = "stats"
    /\ stats.latestRelease # Null
    /\ stats.latestRelease.date > now + (MsPerDay \div 2)
    /\ stats.daysSinceLatestRelease = Number(1)

-----------------------------------------------------------------------------
(* Properties of the Repository constructor *)

\* The string holds nothing but white space (the empty string included).
IsBlank(s) == \A i \in DOMAIN s : s[i] \in WhiteSpace

BeginsWithHttp(s) ==
    /\ Len(s) >= 4
    /\ s[1] = "h" /\ s[2] = "t" /\ s[3] = "t" /\ s[4] = "p"

\* The constructor returned an object with the fields it was given.
BuiltFromArgs ==
    /\ built = [name |-> args.name, owner |-> args.owner, url |-> args.url,
                description |-> Null, language |-> Null,
                starCount |-> args.starCount, updatedAt |-> 0,
                releaseStats |-> Null]

\* C15 as stated: construction fails exactly when name, owner or url is
\* empty, the url does not begin with the scheme, or starCount is negative.
C15_AsStated ==
    built # Unset =>
        built = IF args.name = <<>> \/ args.owner = <<>> \/ args.url = <<>>
                THEN Error("Repository name, owner, and url are required")
                ELSE IF ~BeginsWithHttp(args.url)
                THEN Error("Invalid repository URL")
                ELSE IF args.starCount < 0
                THEN Error("Star count cannot be negative")
                ELSE [name |-> args.name, owner |-> args.owner,
                      url |-> args.url, description |-> Null,
                      language |-> Null, starCount |-> args.starCount,
                      updatedAt |-> 0, releaseStats |-> Null]

\* C15: constructing a Repository fails exactly when name or owner is empty
\* or holds only white space, url is empty, url does not begin with the
\* characters 'http', or starCount is negative; otherwise it gives an object
\* with the fields handed in. Of several violations the first is reported:
\* missing name/owner/url, then invalid URL, then negative star count.
C15_ConstructorValidation ==
    built # Unset =>
        /\ (IsBlank(args.name) \/ IsBlank(args.owner) \/ args.url = <<>>) =>
              built = Error("Repository name, owner, and url are required")
        /\ (  /\ ~IsBlank(args.name) /\ ~IsBlank(args.owner)
              /\ args.url # <<>> /\ ~BeginsWithHttp(args.url)) =>
              built = Error("Invalid repository URL")
        /\ (  /\ ~IsBlank(args.name) /\ ~IsBlank(args.owner)
              /\ BeginsWithHttp(args.url) /\ args.starCount < 0) =>
              built = Error("Star count cannot be negative")
        /\ (  /\ ~IsBlank(args.name) /\ ~IsBlank(args.owner)
              /\ BeginsWithHttp(args.url) /\ args.starCount >= 0) =>
              BuiltFromArgs

\* A name of white space only, everything else valid, is refused.
C15_Witness ==
    /\ built = Error("Repository name, owner, and url are required")
    /\ args.name = <<" ">>
    /\ args.owner = <<"a">>
    /\ BeginsWithHttp(args.url)
    /\ args.starCount = 0

\* One more case of C15: two violations at once, the first one reported.
C15_WitnessOrder ==
    /\ built = Error("Invalid repository URL")
    /\ args.starCount < 0

-----------------------------------------------------------------------------
(* Properties of FetchRepositoryData.execute and FetchRepositories.execute *)

\* The FetchRepositoryData.execute calls that have resolved.
Settled == {i \in DOMAIN enriched : i \notin pending}

\* getRepositoryTags of repository i resolved with a tag array.
TagsArrived(i) ==
    /\ ~IsRejected(tagAnswers[i])
    /\ tagAnswers[i].resolved # Null

\* The objects the provider listed.
InputObjects == {listAnswer.resolved[k].object : k \in DOMAIN listAnswer.resolved}

\* FetchRepositories.execute went on to enrich the list.
Enriching == includeReleaseData /\ ~IsRejected(listAnswer) /\ fpc # "start" /\ fpc # "listing"

\* C16: when the tag fetch succeeds, FetchRepositoryData.execute returns a
\* new Repository whose name, owner, url, description, language, starCount
\* and updatedAt equal those of the input and whose releaseStats is present
\* (for an empty tag list too, with totalReleases 0); the input object is
\* left as it was, its releaseStats included.
C16_EnrichedIsNewCopy ==
    Enriching =>
        /\ repositories = listAnswer.resolved
        /\ \A i \in Settled : TagsArrived(i) =>
              /\ enriched[i].object \notin InputObjects
              /\ enriched[i].name = listAnswer.resolved[i].name
              /\ enriched[i].owner = listAnswer.resolved[i].owner
              /\ enriched[i].url = listAnswer.resolved[i].url
              /\ enriched[i].description = listAnswer.resolved[i].description
              /\ enriched[i].language = listAnswer.resolved[i].language
              /\ enriched[i].starCount = listAnswer.resolved[i].starCount
              /\ enriched[i].updatedAt = listAnswer.resolved[i].updatedAt
              /\ enriched[i].releaseStats # Null
              /\ enriched[i].releaseStats.totalReleases =
                     Len(tagAnswers[i].resolved.items)
              /\ repositories[i].releaseStats = Null

C16_Witness ==
    /\ Enriching
    /\ \E i \in Settled :
          /\ tagAnswers[i] = Resolved(Array(<<>>))
          /\ enriched[i].releaseStats # Null
          /\ enriched[i].releaseStats.totalReleases = 0
          /\ enriched[i].description # Null

\* One more case of C16: a repository with two tags.
C16_WitnessTags ==
    /\ Enriching
    /\ \E i \in Settled :
          /\ TagsArrived(i)
          /\ enriched[i].releaseStats # Null
          /\ enriched[i].releaseStats.totalReleases = 2

\* The warnings logged about repository i.
Warnings(i) ==
    {k \in DOMAIN logged :
        logged[k] = Log("warn", String(listAnswer.resolved[i].name))}

\* C17: FetchRepositoryData.execute never fails: when getRepositoryTags
\* rejects, or parsing the value it resolved with raises, execute logs a
\* warning and resolves with the input repository, the same object with its
\* releaseStats as before; it logs no warning when it enriched.
C17_FailureGivesOriginal ==
    Enriching =>
        \A i \in Settled :
            /\ ~IsError(enriched[i])
            /\ ~TagsArrived(i) =>
                  /\ enriched[i] = listAnswer.resolved[i]
                  /\ enriched[i].object = listAnswer.resolved[i].object
                  /\ enriched[i].releaseStats = Null
                  /\ Cardinality(Warnings(i)) = 1
            /\ TagsArrived(i) => Warnings(i) = {}

C17_Witness ==
    /\ Enriching
    /\ outcome # Unset
    /\ \E i \in Settled :
          /\ IsRejected(tagAnswers[i])
          /\ enriched[i] = listAnswer.resolved[i]

\* One more case of C17: the provider resolved with null and tags.map raised.
C17_WitnessRaised ==
    /\ Enriching
    /\ \E i \in Settled :
          /\ tagAnswers[i] = Resolved(Null)
          /\ enriched[i] = listAnswer.resolved[i]
          /\ Warnings(i) # {}

\* The statistics of repository i, from its own tags and the clock value its
\* enrichment read.
OwnStats(i) ==
    CalculateStats(ParseTags(tagAnswers[i].resolved.items), clocks[i])

\* C18: with release data enabled, for a list of n repositories whose tag
\* fetches complete in any order and fail for any subset, execute resolves
\* with exactly n repositories in the order of the list; position i carries
\* repository i, with the statistics of its own tags when its fetch
\* succeeded and as the original object when it failed, whatever the order
\* of completion.
C18_BatchInListOrder ==
    (Enriching /\ fpc = "done") =>
        /\ ~IsRejected(outcome)
        /\ Len(outcome.resolved) = Len(listAnswer.resolved)
        /\ \A i \in DOMAIN listAnswer.resolved :
              /\ outcome.resolved[i].name = listAnswer.resolved[i].name
              /\ outcome.resolved[i].owner = listAnswer.resolved[i].owner
              /\ IF TagsArrived(i)
                 THEN outcome.resolved[i].releaseStats = OwnStats(i)
                 ELSE outcome.resolved[i] = listAnswer.resolved[i]

C18_Witness ==
    /\ Enriching
    /\ fpc = "done"
    /\ completed = <<2, 1>>
    /\ IsRejected(tagAnswers[1])
    /\ TagsArrived(2)
    /\ outcome.resolved[2].releaseStats.totalReleases = 2

\* The calls of getRepositoryTags made so far.
TagFetches == {k \in DOMAIN calls : calls[k].op = "getRepositoryTags"}

\* C19: when listRepositories rejects, execute logs the error and rejects
\* with that same error, and getRepositoryTags is called for no repository;
\* when listRepositories resolves with an empty list, execute resolves with
\* an empty list.
C19_ListFailurePropagates ==
    /\ IsRejected(listAnswer) =>
          /\ TagFetches = {}
          /\ fpc = "done" =>
                /\ outcome = Rejected(listAnswer.rejected)
                /\ logged[Len(logged)] = Log("error", Null)
    /\ (~IsRejected(listAnswer) /\ fpc = "done") =>
          (listAnswer.resolved = <<>> => outcome = Resolved(<<>>))

C19_Witness ==
    /\ IsRejected(listAnswer)
    /\ fpc = "done"
    /\ outcome = Rejected("list failed")

\* One more case of C19: the empty list, with release data enabled.
C19_WitnessEmpty ==
    /\ Enriching
    /\ fpc = "done"
    /\ listAnswer.resolved = <<>>
    /\ outcome = Resolved(<<>>)

\* Repository i has no release to show: its fetch failed, or it has no tag.
FailedOrNoTags(i) ==
    \/ ~TagsArrived(i)
    \/ tagAnswers[i].resolved.items = <<>>

\* C20: a repository whose tag fetch failed and a repository with zero tags
\* look the same to the consumers of the result: hasReleaseStats() is false
\* and getLatestReleaseVersion() is null for both, and both are in the batch
\* result.
C20_FailedLooksLikeNoTags ==
    Enriching =>
        /\ \A i \in Settled : FailedOrNoTags(i) =>
              /\ ~HasReleaseStats(enriched[i])
              /\ GetLatestReleaseVersion(enriched[i]) = Null
        /\ fpc = "done" =>
              \A i \in DOMAIN listAnswer.resolved :
                  /\ i \in DOMAIN outcome.resolved
                  /\ outcome.resolved[i] = enriched[i]

C20_Witness ==
    /\ Enriching
    /\ fpc = "done"
    /\ \E i, j \in Settled :
          /\ ~TagsArrived(i)
          /\ tagAnswers[j] = Resolved(Array(<<>>))
          /\ ~HasReleaseStats(outcome.resolved[i])
          /\ ~HasReleaseStats(outcome.resolved[j])
          /\ outcome.resolved[j].releaseStats # Null

-----------------------------------------------------------------------------
(* Further properties of ReleaseCalculator *)

\* The (name, date) pairs of a sequence that carry the date d, in order.
RECURSIVE Dated(_, _)
Dated(pairs, d) ==
    IF pairs = <<>>
    THEN <<>>
    ELSE IF pairs[1].date = d
         THEN <<pairs[1]>> \o Dated(Tail(pairs), d)
         ELSE Dated(Tail(pairs), d)

\* The (name, date) pairs of the releases, in order.
ReleasePairs == [i \in DOMAIN releases |-> TagOf(releases[i])]

\* C21: parseTags does not reverse ties: tags with equal dates come out in
\* the relative order they had in the input.
C21_TiesKeepInputOrder ==
    FromParseTags =>
        \A d \in Instants : Dated(ReleasePairs, d) = Dated(tags, d)

C21_Witness ==
    /\ FromParseTags
    /\ Len(tags) = 3
    /\ tags[1].date = tags[3].date
    /\ tags[1].name # tags[3].name
    /\ tags[2].date > tags[1].date
    /\ releases[2].tagName = tags[1].name
    /\ releases[3].tagName = tags[3].name

-----------------------------------------------------------------------------
(* Properties of User *)

\* The positions of '@' in the email.
AtSigns == {k \in DOMAIN email : email[k] = "@"}

\* The email is local@domain.tld: no white space, exactly one '@', something
\* before it, and after it a '.' with something on both sides.
HasEmailForm ==
    /\ \A k \in DOMAIN email : email[k] \notin WhiteSpace
    /\ Cardinality(AtSigns) = 1
    /\ LET at == CHOOSE k \in AtSigns : TRUE
       IN /\ at > 1
          /\ \E dot \in (at + 2)..(Len(email) - 1) : email[dot] = "."

\* The part of the email after its '@'.
AfterAt ==
    LET at == CHOOSE k \in AtSigns : TRUE
    IN SubSeq(email, at + 1, Len(email))

\* C22: for every User constructed successfully, hasAllowedDomain(d) is true
\* if and only if d equals getDomain(), the part of the email after '@',
\* compared case-sensitively; construction fails with 'Invalid email
\* address' for an empty email and for an email that is not of the form
\* local@domain.tld with no white space and exactly one '@'.
C22_AllowedDomainIsGetDomain ==
    /\ upc # "input" =>
          (IsError(user) <=> ~HasEmailForm)
    /\ (upc # "input" /\ ~HasEmailForm) =>
          user = Error("Invalid email address")
    /\ upc \in {"domain", "asked"} => domain = AfterAt
    /\ upc = "asked" => (allowed <=> allowedDomain = domain)

C22_Witness ==
    /\ upc = "asked"
    /\ email = <<"a", "@", "B", ".", "a">>
    /\ allowedDomain = <<"B", ".", "a">>
    /\ allowed

\* One more case of C22: the same domain in another case is refused.
C22_WitnessCase ==
    /\ upc = "asked"
    /\ email = <<"a", "@", "B", ".", "a">>
    /\ allowedDomain = <<"b", ".", "a">>
    /\ ~allowed

\* One more case of C22: two '@' are refused.
C22_WitnessInvalid ==
    /\ upc = "built"
    /\ email = <<"a", "@", "@", ".", "a">>
    /\ user = Error("Invalid email address")

-----------------------------------------------------------------------------
(* Properties of GitHubRepositoryProvider *)

\* No organization was handed in and none was configured.
NoOrganization ==
    /\ method = "listRepositories"
    /\ orgName \in {Undefined, String(<<>>)}
    /\ configuredOrg = String(<<>>)

\* The request was made and failed with this status.
FailedWith(status) ==
    /\ ~NoOrganization
    /\ IsRejected(apiAnswer)
    /\ apiAnswer.rejected.status = status

\* The request was made and failed otherwise, a failure of the mapping of
\* its data included.
FailedOtherwise ==
    /\ ~NoOrganization
    /\ \/ /\ IsRejected(apiAnswer)
          /\ apiAnswer.rejected.status \notin {Number(404), Number(401)}
       \/ /\ ~IsRejected(apiAnswer)
          /\ method = "listRepositories"
          /\ apiAnswer.resolved.nameless

\* The template of the message of the error the method rejected with.
RejectedTemplate == provided.rejected.error.template

\* C23: listRepositories with no organization argument and none configured
\* rejects with 'Organization name is required' before any request is made;
\* for both methods a 404 rejects with a '... not found' error, a 401 with
\* the 'GitHub authentication failed' error, any other failure with a
\* 'Failed to fetch ...' error; a method that met a failure never resolves.
C23_FailuresMapToFixedErrors ==
    /\ NoOrganization => apiCalls = <<>>
    /\ ppc = "done" =>
          /\ NoOrganization =>
                provided =
                    Rejected(Error(Message("Organization name is required",
                                           Null)))
          /\ FailedWith(Number(404)) =>
                /\ IsRejected(provided)
                /\ RejectedTemplate =
                       IF method = "listRepositories"
                       THEN "Organization '%' not found"
                       ELSE "Repository '%' not found"
          /\ FailedWith(Number(401)) =>
                /\ IsRejected(provided)
                /\ RejectedTemplate =
                       "GitHub authentication failed. Check your token."
          /\ FailedOtherwise =>
                /\ IsRejected(provided)
                /\ RejectedTemplate =
                       IF method = "listRepositories"
                       THEN "Failed to fetch repositories: %"
                       ELSE "Failed to fetch tags for %: %"
          /\ ~IsRejected(provided) =>
                /\ ~IsRejected(apiAnswer)
                /\ method = "listRepositories" =>
                      /\ ~apiAnswer.resolved.nameless
                      /\ Len(provided.resolved) = apiAnswer.resolved.count
                /\ method = "getRepositoryTags" =>
                      Len(provided.resolved) = Len(apiAnswer.resolved)

C23_Witness ==
    /\ ppc = "done"
    /\ method = "listRepositories"
    /\ FailedWith(Number(401))
    /\ IsRejected(provided)

\* One more case of C23: no organization at all.
C23_WitnessNoOrganization ==
    /\ ppc = "done"
    /\ NoOrganization
    /\ IsRejected(provided)
    /\ apiCalls = <<>>

\* One more case of C23: the tags of a repository that does not exist.
C23_WitnessTags ==
    /\ ppc = "done"
    /\ method = "getRepositoryTags"
    /\ FailedWith(Number(404))
    /\ IsRejected(provided)

-----------------------------------------------------------------------------
(* Properties of calculateStats(parseTags(tags)) *)

\* The statistics were computed from the output of parseTags, for a tag
\* array that is not empty.
EndToEnd == cpc = "stats" /\ origin = "parseTags" /\ tags # <<>>

\* The positions of the tags whose name is a release version.
SemanticTags == {i \in DOMAIN tags : IsReleaseName(tags[i].name)}

\* The latest of the dates of the tags at these positions.
MaxDate(positions) ==
    CHOOSE d \in {tags[i].date : i \in positions} :
        \A i \in positions : tags[i].date <= d

\* C24: end to end, for every tag sequence that is not empty, in any input
\* order: latestRelease.date is the maximum date over all tags; the date of
\* latestSemanticRelease, when present, is the maximum date over the tags
\* with a semantic version and at most latestRelease.date; and
\* latestSemanticRelease is latestRelease exactly when the release at
\* position 0 after sorting has a semantic version.
C24_EndToEndLatestIsNewest ==
    EndToEnd =>
        /\ stats.latestRelease.date = MaxDate(DOMAIN tags)
        /\ stats.latestSemanticRelease # Null =>
              /\ SemanticTags # {}
              /\ stats.latestSemanticRelease.date = MaxDate(SemanticTags)
              /\ stats.latestSemanticRelease.date <= stats.latestRelease.date
        /\ (stats.latestSemanticRelease = stats.latestRelease)
               <=> HasSemanticVersion(releases[1])

C24_Witness ==
    /\ EndToEnd
    /\ Len(tags) = 3
    /\ tags[1].date < tags[2].date
    /\ tags[3].date < tags[1].date
    /\ stats.latestSemanticRelease # Null
    /\ stats.latestSemanticRelease.date < stats.latestRelease.date

-----------------------------------------------------------------------------
(* ReleaseCalculator is free of side effects *)

\* No step changes the tag array handed to parseTags, nor the release array
\* once it exists.
ArraysUntouched ==
    /\ tags' = tags
    /\ cpc # "tags" => releases' = releases

\* The second call returned what the first one did.
SameResults ==
    again # Unset =>
        /\ again.releases = releases
        /\ cpc = "stats" => again.result = stats
        /\ cpc = "filtered" => again.result = Array(filtered)
        /\ cpc = "latest" => again.result = Array(latestReleases)

-----------------------------------------------------------------------------
(* Properties of NextAuthProvider.getCurrentUser *)

\* C26: with authentication disabled, getCurrentUser resolves with the mock
\* development user (id 'dev-user', email 'developer@localhost') and does
\* not fail; with authentication enabled it resolves with a User built from
\* the session email, or with null when there is no session email or when
\* reading the session or building the User raises.
C26_CurrentUserNeverFails ==
    apc = "done" =>
        /\ ~IsRejected(currentUser)
        /\ ~authEnabled =>
              /\ currentUser.resolved # Null
              /\ currentUser.resolved.id =
                     <<"d", "e", "v", "-", "u", "s", "e", "r">>
              /\ currentUser.resolved.email = DeveloperEmail
        /\ authEnabled =>
              \/ currentUser = Resolved(Null)
              \/ /\ ~IsRejected(session)
                 /\ currentUser.resolved.email =
                        session.resolved.user.email.chars

-----------------------------------------------------------------------------
(* Properties of GET /api/repositories *)

\* The handler found no current user although authentication is enabled.
Unauthenticated == authEnabled /\ SessionSettled(session) = Resolved(Null)

\* The response of a check that did not pass.
Refusal ==
    IF Unauthenticated
    THEN ErrorResponse(401, "Unauthorized")
    ELSE IF githubOrg = String(<<>>)
    THEN ErrorResponse(500, "GitHub organization not configured")
    ELSE IF githubToken = String(<<>>)
    THEN ErrorResponse(500, "GitHub token not configured")
    ELSE Null

\* C27: the handler checks authentication, then the organization, then the
\* token: the first check that fails decides the response (401, 500, 500)
\* and then the provider is never called; execute runs only when all three
\* pass, and a failure of execute gives a 500 response.
C27_ChecksBeforeProvider ==
    /\ calls # <<>> => Refusal = Null
    /\ fpc # "idle" => Refusal = Null
    /\ rpc = "done" =>
          /\ Refusal # Null => response = Refusal /\ calls = <<>>
          /\ Refusal = Null =>
                /\ fpc = "done"
                /\ IsRejected(outcome) =>
                      response = ErrorResponse(500,
                                               "Failed to fetch repositories")
                /\ ~IsRejected(outcome) => response.status = 200

\* A request refused for its token after the user was authenticated, and a
\* request whose execute failed.
C27_Witness ==
    /\ rpc = "done" /\ authEnabled
    /\ response = ErrorResponse(500, "GitHub token not configured")

C27_WitnessUnauthorized ==
    /\ rpc = "done" /\ response.status = 401 /\ githubOrg = String(<<>>)

C27_WitnessFailed ==
    /\ rpc = "done" /\ Refusal = Null /\ IsRejected(outcome)
    /\ calls # <<>>

-----------------------------------------------------------------------------
(* Properties of getLatestReleases for every count *)

\* C28: getLatestReleases never returns more releases than requested: for
\* every integer count, zero and negative ones included, the result has at
\* most max(count, 0) elements.
C28_AtMostCount ==
    cpc = "latest" => Len(latestReleases) <= Max(count, 0)

-----------------------------------------------------------------------------
(* Properties of the dashboard *)

\* The numerals of a release name: the name without its "v", cut at the
\* dots.
Numerals(name) == Split(IF name[1] = "v" THEN Tail(name) ELSE name, <<".">>[1])

\* A numeral as the number it stands for is written: no leading zeros, and
\* the exponent form from 10^21 on.
Written(numeral) == NumberToString(StripLeadingZeros(numeral))

\* The 'major.minor.patch' rendering of a release name.
Plain(name) ==
    Written(Numerals(name)[1]) \o <<".">> \o Written(Numerals(name)[2])
        \o <<".">> \o Written(Numerals(name)[3])

\* getLatestReleaseVersion was called on the enriched repository.
Asked == dpc = "asked"

\* C29: for a Repository produced by enrichment, getLatestReleaseVersion()
\* is absent exactly when semanticReleases is 0, and when present it is the
\* major.minor.patch rendering of the tag of a latest semantic release: it
\* does not begin with "v" and carries no "-" suffix.
C29_LatestVersionOfEnriched ==
    Asked =>
        /\ shown.releaseStats = stats
        /\ (latestVersion = Null) <=> (shown.releaseStats.semanticReleases = 0)
        /\ latestVersion # Null =>
              /\ \E i \in SemanticTags :
                    /\ tags[i].date = MaxDate(SemanticTags)
                    /\ latestVersion.chars = Plain(tags[i].name)
              /\ latestVersion.chars[1] # "v"
              /\ \A k \in DOMAIN latestVersion.chars :
                    latestVersion.chars[k] # "-"

\* The newest tag is a pre-release, and the version returned is that of the
\* older release.
C29_Witness ==
    /\ Asked
    /\ Len(tags) = 2
    /\ stats.latestRelease.version # Null
    /\ stats.latestRelease.version.preRelease # Undefined
    /\ latestVersion = String(<<"1", ".", "0", ".", "0">>)

C29_WitnessAbsent ==
    /\ Asked /\ Len(tags) = 2 /\ latestVersion = Null

C29_WitnessLeadingZero ==
    /\ Asked /\ latestVersion = String(<<"1", ".", "2", ".", "3">>)

\* C30: on the card, the age written beside the version badge is the age of
\* the release the badge names: formatDaysAgo of the whole days between the
\* clock and latestSemanticRelease.date.
C30_AgeIsOfTheVersionShown ==
    (dpc = "card" /\ card # Null /\ card.badge # Null) =>
        card.badge.age =
            FormatDaysAgo(Abs(now - stats.latestSemanticRelease.date)
                              \div MsPerDay)

=============================================================================
